---- MODULE Spec2Model ----
(***************************************************************************)
(* Verification model of the tessera facility-coverage backend.            *)
(*                                                                         *)
(* Spec     : the process-wide current-diagram slot (services/dcel.py),    *)
(*            the compute handlers that fill it and the DCEL query         *)
(*            handlers that read it.  A compute is modelled step by step   *)
(*            so that readers and clears interleave between any two of     *)
(*            its statements.                                              *)
(*                                                                         *)
(* Python objects are references: DCELs, feature collections and property  *)
(* dictionaries live in heaps (sequences indexed by object id), so that    *)
(* two names for one dictionary are one heap cell.                         *)
(***************************************************************************)
EXTENDS Integers, Sequences, FiniteSets, TLC

\* ------------------------------------------------------------------ bounds
MaxFac == 3          \* largest number of facilities in one request
MaxDiagrams == 2     \* number of DCEL objects ever allocated
MaxRouteQueries == 1 \* routing queries one road-mode compute may issue
GridW == 5           \* columns of the lattice world
GridH == 4           \* rows of the lattice world
MaxPenalty == 2      \* largest road penalty of a facility, in lattice units
MaxPopulation == 100 \* largest population of one district
BatchSize == 4       \* sources per table query (config.batch_size)
MaxFaultAt == 2      \* the oracle's planned fault hits one of the first calls
MaxNodes == 4        \* nodes of an adjacency graph given to the greedy loop
NetNodes == 4        \* nodes of a loaded road graph
MaxLength == 2       \* longest edge of a road graph

\* --------------------------------------------------------- program constants
MinFacilities == 3   \* "Need at least 3 ..." threshold
num_neighbor_samples == 5  \* WeightedVoronoiConfig default
penalty_scale == 1         \* WeightedVoronoiConfig default
base_k == 5          \* RouteVoronoiConfig default
NoneId == 0          \* Python None where an object id is expected
NoPop == -1          \* key 'population' absent from a property dict

Modes == {"euclidean", "weighted", "dominating", "edge_adjust"}
NoDiagramMsg == "No Voronoi diagram has been computed yet"
FacilityNotFoundMsg == "Facility not found"

VARIABLES
    slot,      \* dcel.py _current_dcel: NoneId or the id of a DCEL in heap
    heap,      \* DCEL objects by id
    geo,       \* geo[d]: the feature collection DCEL d was built from
    bags,      \* property dictionaries by id
    task,      \* the compute request in flight (its locals and position)
    resp,      \* response of the latest DCEL query handler
    lastSet,   \* history: the latest completed write of the slot
    engine     \* route_voronoi_service.py _route_voronoi_engine, and the
               \* latest call of its accessors

slotVars == <<slot, heap, geo, bags, task, resp, lastSet, engine>>

\* SpecGeo: one Euclidean or weighted compute over a lattice world, followed by
\* population weighting
VARIABLES
    gin,       \* the inputs: sites, clip boundary, penalties, districts
    gpc,       \* position: "off", "input", "cells", "raised", "weighed"
    gmode,     \* which engine produced cells
    cells,     \* the emitted features
    popres,    \* results of calculate_weighted_population
    gerror,    \* the exception that ended the compute, "none" without one
    gprev,     \* the penalties and cells of the weighted compute before
    gdcel,     \* SpecDcel: the DCEL built over a feature collection
    gquery     \* SpecDcel: the latest k-NN query and what it returned

geoVars == <<gin, gpc, gmode, cells, popres, gerror, gprev, gdcel, gquery>>

\* SpecRoad: one computation that asks the routing oracle
VARIABLES
    rin,       \* the inputs: sites, clip boundary, road map, oracle plan
    rcomp,     \* "weighted", "route_grid" or "refinement"
    rpc,       \* "off", "input", "dominating", "calls", "done", "aborted"
    reuclid,   \* the features of the Euclidean diagram (and its DCEL)
    rdom,      \* adjacency graph, the greedy loop's sets and its picks
    rcalls,    \* oracle requests still to make
    rassign,   \* (pt, facility_id) assignments so far
    rpen,      \* facility -> penalty so far
    rqueries,  \* the reported query count
    rsent,     \* requests sent to the oracle
    rlast,     \* how the latest request went
    rout,      \* the features returned
    rnet       \* SpecGraph: a road graph, the facilities snapped to it and
               \* the node partition computed over it

roadVars == <<rin, rcomp, rpc, reuclid, rdom, rcalls, rassign,
              rpen, rqueries, rsent, rlast, rout, rnet>>

vars == <<slotVars, geoVars, roadVars>>

\* ---------------------------------------------------------------- dcel.py
get_current_dcel == slot

set_current_dcel_local(d) == slot' = slot

set_current_dcel(d) == slot' = d

EmptyDCEL == [faces |-> <<>>, face_lookup |-> {}, spatial_index |-> FALSE]

\* DCELFace(id=idx, facility_id=..., properties=properties): the face keeps
\* the feature's own property dictionary (the same object).
MakeFace(idx, feature) ==
    [id |-> idx, facility_id |-> feature.facility_id,
     properties |-> feature.properties]

\* one iteration of the loop of build_from_voronoi
BuildFaceInto(d, idx, feature) ==
    [d EXCEPT !.faces = Append(@, MakeFace(idx, feature)),
              !.face_lookup = {e \in @ : e[1] # feature.facility_id}
                              \cup {<<feature.facility_id, Len(d.faces) + 1>>}]

build_spatial_index_skipped(d) == d

_build_spatial_index(d) == [d EXCEPT !.spatial_index = (Len(d.faces) > 0)]

\* DCEL.get_face_by_facility_id: index of the face, 0 when absent
get_face_by_facility_id(d, fid) ==
    IF \E e \in d.face_lookup : e[1] = fid
    THEN (CHOOSE e \in d.face_lookup : e[1] = fid)[2]
    ELSE 0

\* DCEL.point_query; the query point is given by the facility whose cell
\* contains it (0: outside every cell)
point_query(d, pt) ==
    IF ~d.spatial_index THEN 0
    ELSE IF \E i \in 1..Len(d.faces) : d.faces[i].facility_id = pt
         THEN CHOOSE i \in 1..Len(d.faces) : d.faces[i].facility_id = pt
         ELSE 0

TaskIdle ==
    [pc |-> "idle", mode |-> "euclidean", n |-> 0,
     include_population |-> FALSE, dcel |-> NoneId, idx |-> 0, queries |-> 0,
     error |-> "none", pop_data |-> <<>>]

NoResp ==
    [op |-> "none", status |-> 0, detail |-> "", dcel |-> NoneId,
     found |-> FALSE, facility_id |-> 0, count |-> 0, available |-> FALSE]

\* no RouteVoronoiEngine yet, and no call of the accessors: made says that
\* _route_voronoi_engine is an engine, dcel is its self.dcel; op, used and
\* current record the latest accessor call, the diagram of the engine it
\* returned and the slot at that moment
NoEngine == [made |-> FALSE, dcel |-> NoneId, op |-> "none",
             used |-> NoneId, current |-> NoneId]

SlotInit ==
    /\ slot = NoneId
    /\ heap = <<>>
    /\ geo = <<>>
    /\ bags = <<>>
    /\ task = TaskIdle
    /\ resp = NoResp
    /\ lastSet = [kind |-> "none", dcel |-> NoneId]
    /\ engine = NoEngine

NoInputs == [sites |-> <<>>, boundary |-> {}, penalties |-> <<>>,
             districts |-> <<>>, data_found |-> TRUE,
             state_filter |-> "none", clip_to_india |-> TRUE,
             india_loaded |-> TRUE]

\* no weighted compute has gone before
NoPrev == [penalties |-> <<>>, cells |-> <<>>, raised |-> 0]

\* a DCEL() before build_from_voronoi
NoDcel == [faces |-> <<>>, _face_lookup |-> {}, _geometry_to_face |-> {}]

NoQuery == [op |-> "none", pt |-> <<0, 0>>, k |-> 0, threshold |-> 0,
            k_used |-> 0, faces |-> <<>>]

GeoOff ==
    /\ gin = NoInputs
    /\ gpc = "off"
    /\ gmode = "none"
    /\ cells = <<>>
    /\ popres = <<>>
    /\ gerror = "none"
    /\ gprev = NoPrev
    /\ gdcel = NoDcel
    /\ gquery = NoQuery

NoDom == [adjacency |-> <<>>, uncovered |-> {}, dominating_set |-> {},
          picks |-> <<>>]

NoCall == [kind |-> "none", asked |-> 0, answered |-> 0]

\* no road graph loaded
NoNet ==
    [pc |-> "off", G |-> <<>>, snapped |-> <<>>, nodes |-> {},
     facility_nodes |-> <<>>, unique_nodes |-> <<>>, voronoi_dict |-> <<>>,
     features |-> {}]

\* WeightedVoronoiConfig(): the fields the penalties depend on
DefaultConfig ==
    [penalty_scale |-> penalty_scale,
     num_neighbor_samples |-> num_neighbor_samples]

RoadOff ==
    /\ rin = [sites |-> <<>>, boundary |-> {}, roads |-> "plain",
              oracle |-> [mode |-> "up", at |-> 0, kind |-> "ok"],
              config |-> DefaultConfig]
    /\ rcomp = "none"
    /\ rpc = "off"
    /\ reuclid = <<>>
    /\ rdom = NoDom
    /\ rcalls = <<>>
    /\ rassign = <<>>
    /\ rpen = <<>>
    /\ rqueries = 0
    /\ rsent = 0
    /\ rlast = NoCall
    /\ rout = <<>>
    /\ rnet = NoNet

Init == SlotInit /\ GeoOff /\ RoadOff


\* ------------------------------------------------- entry checks of the modes
\* routers/voronoi.py: HTTP 400 before the engine is built
RouterTooFewOffByOne(n) == n < MinFacilities - 1

RouterTooFew(n) == n < MinFacilities

\* VoronoiEngine.compute_voronoi: ValueError
EngineTooFew(n) == n < MinFacilities

\* WeightedVoronoiEngine.compute: ValueError, first statement after config
WeightedTooFew(n) == n < MinFacilities

\* DominatingVoronoiEngine.compute: ValueError
DominatingTooFew(n) == n < MinFacilities

\* EdgeAdjustVoronoiEngine.compute: ValueError
EdgeAdjustTooFew(n) == n < MinFacilities

EntryRejects(mode, n) ==
    CASE mode = "euclidean" -> RouterTooFew(n)
      [] mode = "weighted" -> WeightedTooFew(n)
      [] mode = "dominating" -> DominatingTooFew(n)
      [] mode = "edge_adjust" -> EdgeAdjustTooFew(n)

Resting == task.pc \in {"idle", "done"}

\* A compute request arrives: POST /api/voronoi/compute (euclidean) or a call
\* of WeightedVoronoiEngine / DominatingVoronoiEngine / EdgeAdjustVoronoiEngine
\* .compute.  Fewer than three facilities are rejected on entry.
Request(mode, n, incl) ==
    /\ Resting
    /\ task' = [TaskIdle EXCEPT
                   !.mode = mode, !.n = n,
                   !.include_population = (incl /\ mode = "euclidean"),
                   !.pc = IF EntryRejects(mode, n) THEN "done"
                          ELSE "compute_voronoi",
                   !.error = IF EntryRejects(mode, n) THEN "InvalidInput"
                             ELSE "none"]
    /\ UNCHANGED <<slot, heap, geo, bags, resp, lastSet, engine,
                   geoVars, roadVars>>

\* The feature collection compute_voronoi returns for n facilities: one
\* feature per facility, in input order, each with a fresh property dict.
Features(n, firstBag) ==
    [i \in 1..n |-> [facility_id |-> i, properties |-> firstBag + i]]

FreshBags(n) == [i \in 1..n |-> [facility_id |-> i, population |-> NoPop]]

\* VoronoiEngine.compute_voronoi raises: ValueError for too few points (turned
\* into HTTP 500 by the router's except clause in euclidean mode), or any
\* failure of the construction.
ComputeVoronoiFails ==
    /\ task.pc = "compute_voronoi"
    /\ task' = [task EXCEPT
                   !.pc = "done",
                   !.error = IF EngineTooFew(task.n) /\ task.mode # "euclidean"
                             THEN "InvalidInput" ELSE "Internal"]
    /\ UNCHANGED <<slot, heap, geo, bags, resp, lastSet, engine,
                   geoVars, roadVars>>

\* compute_voronoi succeeds; compute_voronoi_with_dcel then creates DCEL()
ComputeVoronoiOk ==
    /\ task.pc = "compute_voronoi"
    /\ ~EngineTooFew(task.n)
    /\ Len(heap) < MaxDiagrams
    /\ geo' = Append(geo, Features(task.n, Len(bags)))
    /\ bags' = bags \o FreshBags(task.n)
    /\ heap' = Append(heap, EmptyDCEL)
    /\ task' = [task EXCEPT !.pc = "build_faces", !.dcel = Len(heap) + 1,
                            !.idx = 1]
    /\ UNCHANGED <<slot, resp, lastSet, engine, geoVars, roadVars>>

\* DCEL.build_from_voronoi, one feature per step
BuildFace ==
    /\ task.pc = "build_faces"
    /\ LET d == task.dcel
           fs == geo[d]
       IN /\ heap' = [heap EXCEPT ![d] = BuildFaceInto(@, task.idx, fs[task.idx])]
          /\ task' = [task EXCEPT !.idx = @ + 1,
                         !.pc = IF task.idx = Len(fs) THEN "build_index"
                                ELSE "build_faces"]
    /\ UNCHANGED <<slot, geo, bags, resp, lastSet, engine, geoVars, roadVars>>

\* build_from_voronoi's last statement
BuildIndex ==
    /\ task.pc = "build_index"
    /\ heap' = [heap EXCEPT ![task.dcel] = _build_spatial_index(@)]
    /\ task' = [task EXCEPT !.pc = "publish"]
    /\ UNCHANGED <<slot, geo, bags, resp, lastSet, engine, geoVars, roadVars>>

\* compute_voronoi_with_dcel: set_current_dcel(dcel); return geojson, dcel
Publish ==
    /\ task.pc = "publish"
    /\ set_current_dcel(task.dcel)
    /\ lastSet' = [kind |-> "compute", dcel |-> task.dcel]
    /\ task' = [task EXCEPT
                   !.pc = IF task.mode = "euclidean"
                          THEN IF task.include_population THEN "population"
                               ELSE "return"
                          ELSE "routing"]
    /\ UNCHANGED <<heap, geo, bags, resp, engine, geoVars, roadVars>>

\* PopulationService.calculate_weighted_population as the router sees it:
\* [] when no district data is loaded, else one result per feature.
PopData(n) ==
    [i \in 1..n |-> [facility_id |-> i, total_population |-> 5 * i]]

CalcPopulation ==
    /\ task.pc = "population"
    /\ \/ task' = [task EXCEPT !.pc = "merge", !.idx = 1, !.pop_data = <<>>]
       \/ task' = [task EXCEPT !.pc = "merge", !.idx = 1,
                                !.pop_data = PopData(task.n)]
    /\ UNCHANGED <<slot, heap, geo, bags, resp, lastSet, engine,
                   geoVars, roadVars>>

\* routers/voronoi.py: for feature in geojson['features'] ... one per step
MergePopulation ==
    /\ task.pc = "merge"
    /\ LET fs == geo[task.dcel]
           f == fs[task.idx]
           ms == {j \in 1..Len(task.pop_data) :
                      task.pop_data[j].facility_id = f.facility_id}
       IN /\ bags' = IF ms = {} THEN bags
                     ELSE LET m == CHOOSE j \in ms : \A k \in ms : j <= k
                          IN [bags EXCEPT ![f.properties].population =
                                  task.pop_data[m].total_population]
          /\ task' = [task EXCEPT !.idx = @ + 1,
                         !.pc = IF task.idx = Len(fs) THEN "return"
                                ELSE "merge"]
    /\ UNCHANGED <<slot, heap, geo, resp, lastSet, engine, geoVars, roadVars>>

\* a road mode asks the routing oracle (penalties, grid rows, vertex moves)
RoutingQuery ==
    /\ task.pc = "routing"
    /\ task.queries < MaxRouteQueries
    /\ task' = [task EXCEPT !.queries = @ + 1]
    /\ UNCHANGED <<slot, heap, geo, bags, resp, lastSet, engine,
                   geoVars, roadVars>>

FinishRouting ==
    /\ task.pc = "routing"
    /\ task' = [task EXCEPT !.pc = "return"]
    /\ UNCHANGED <<slot, heap, geo, bags, resp, lastSet, engine,
                   geoVars, roadVars>>

Return ==
    /\ task.pc = "return"
    /\ task' = [task EXCEPT !.pc = "done"]
    /\ UNCHANGED <<slot, heap, geo, bags, resp, lastSet, engine,
                   geoVars, roadVars>>

\* ------------------------------------------------ writes of the slot by tests
\* set_current_dcel(None)
Clear ==
    /\ set_current_dcel(NoneId)
    /\ lastSet' = [kind |-> "clear", dcel |-> NoneId]
    /\ UNCHANGED <<heap, geo, bags, task, resp, engine, geoVars, roadVars>>

\* set_current_dcel(d) with a DCEL some earlier compute returned
SetPrevious(d) ==
    /\ d \in 1..Len(heap)
    /\ d # task.dcel \/ task.pc \in {"done", "return", "routing", "population", "merge"}
    /\ set_current_dcel(d)
    /\ lastSet' = [kind |-> "set", dcel |-> d]
    /\ UNCHANGED <<heap, geo, bags, task, resp, engine, geoVars, roadVars>>

\* ------------------------------------------------------------ routers/dcel.py
RejectedAsInternal(op, code, msg) ==
    [NoResp EXCEPT !.op = op, !.status = 500, !.detail = "Internal"]

Rejected(op, code, msg) ==
    [NoResp EXCEPT !.op = op, !.status = code, !.detail = msg]

Min(a, b) == IF a < b THEN a ELSE b

query_point(pt) ==
    LET dcel == get_current_dcel
    IN IF dcel = NoneId THEN Rejected("query_point", 400, NoDiagramMsg)
       ELSE LET face == point_query(heap[dcel], pt)
            IN IF face = 0
               THEN [NoResp EXCEPT !.op = "query_point", !.status = 200,
                                   !.dcel = dcel]
               ELSE [NoResp EXCEPT !.op = "query_point", !.status = 200,
                        !.dcel = dcel, !.found = TRUE,
                        !.facility_id = heap[dcel].faces[face].facility_id]

\* the box either meets every cell or none
range_query(all) ==
    LET dcel == get_current_dcel
    IN IF dcel = NoneId THEN Rejected("range_query", 400, NoDiagramMsg)
       ELSE [NoResp EXCEPT !.op = "range_query", !.status = 200, !.dcel = dcel,
                !.count = IF all /\ heap[dcel].spatial_index
                          THEN Len(heap[dcel].faces) ELSE 0]

get_top_by_population(top_n) ==
    LET dcel == get_current_dcel
    IN IF dcel = NoneId THEN Rejected("top_by_population", 400, NoDiagramMsg)
       ELSE [NoResp EXCEPT !.op = "top_by_population", !.status = 200,
                !.dcel = dcel, !.count = Min(top_n, Len(heap[dcel].faces))]

get_adjacent_facilities(fid) ==
    LET dcel == get_current_dcel
    IN IF dcel = NoneId THEN Rejected("adjacent", 400, NoDiagramMsg)
       ELSE IF get_face_by_facility_id(heap[dcel], fid) = 0
            THEN [Rejected("adjacent", 404, FacilityNotFoundMsg)
                     EXCEPT !.dcel = dcel]
            ELSE [NoResp EXCEPT !.op = "adjacent", !.status = 200,
                     !.dcel = dcel, !.found = TRUE, !.facility_id = fid]

get_dcel_summary ==
    LET dcel == get_current_dcel
    IN IF dcel = NoneId
       THEN [NoResp EXCEPT !.op = "summary", !.status = 200,
                           !.detail = NoDiagramMsg]
       ELSE [NoResp EXCEPT !.op = "summary", !.status = 200, !.dcel = dcel,
                !.available = TRUE, !.count = Len(heap[dcel].faces)]

Answer(r) ==
    /\ resp' = r
    /\ UNCHANGED <<slot, heap, geo, bags, task, lastSet, engine,
                   geoVars, roadVars>>

QueryPoint == \E pt \in {0, 1, MaxFac} : Answer(query_point(pt))

RangeQuery == \E all \in BOOLEAN : Answer(range_query(all))

TopByPopulation == \E top_n \in {1, MaxFac} : Answer(get_top_by_population(top_n))

Adjacent == \E fid \in {1, MaxFac} : Answer(get_adjacent_facilities(fid))

Summary == Answer(get_dcel_summary)

Next ==
    \/ \E mode \in Modes, n \in 1..MaxFac :
           \E incl \in (IF mode = "euclidean" THEN BOOLEAN ELSE {FALSE}) :
               Request(mode, n, incl)
    \/ ComputeVoronoiFails
    \/ ComputeVoronoiOk
    \/ BuildFace
    \/ BuildIndex
    \/ Publish
    \/ CalcPopulation
    \/ MergePopulation
    \/ RoutingQuery
    \/ FinishRouting
    \/ Return
    \/ Clear
    \/ \E d \in 1..MaxDiagrams : SetPrevious(d)
    \/ QueryPoint
    \/ RangeQuery
    \/ TopByPopulation
    \/ Adjacent
    \/ Summary

Spec == Init /\ [][Next]_vars


\* ======================================================================
\* Claims on the current-diagram slot (specification Spec)
\* ======================================================================

\* the DCEL d holds every feature of the collection it was built from, with
\* identity index and spatial index
Whole(d) ==
    /\ heap[d].spatial_index
    /\ Len(heap[d].faces) = Len(geo[d])
    /\ \A i \in 1..Len(geo[d]) :
           /\ heap[d].faces[i].facility_id = geo[d][i].facility_id
           /\ get_face_by_facility_id(heap[d], geo[d][i].facility_id) = i

\* C1: after any sequence of successful computes, failed computes and clears,
\* get_current_dcel returns the DCEL of the most recent successful compute or
\* set, and none when nothing was computed yet or the slot was cleared since.
C1_SlotIsLatestWrite ==
    /\ lastSet.kind \in {"none", "clear"} => get_current_dcel = NoneId
    /\ lastSet.kind \in {"compute", "set"} =>
           /\ get_current_dcel = lastSet.dcel
           /\ get_current_dcel \in 1..Len(heap)
           /\ Whole(get_current_dcel)

\* a second compute replaced the first one's diagram after a failed compute
C1_Witness ==
    /\ lastSet.kind = "compute"
    /\ slot > 1
    /\ task.pc = "done" /\ task.error = "Internal"

\* C2: the new DCEL is published only when faces, identity index and spatial
\* index are complete: whatever the interleaving, the slot (and every reader's
\* answer) shows a whole diagram, the previous one or the new one.
C2_PublishedDiagramIsWhole ==
    /\ slot # NoneId => Whole(slot)
    /\ (slot # NoneId /\ task.pc \in {"build_faces", "build_index", "publish"})
           => slot # task.dcel
    /\ (resp.op = "summary" /\ resp.available) =>
           resp.count = Len(geo[resp.dcel])
    /\ (resp.op = "range_query" /\ resp.dcel # NoneId /\ resp.count > 0) =>
           resp.count = Len(geo[resp.dcel])

\* a reader got the whole previous diagram while the next one was half built
C2_Witness ==
    /\ task.pc = "build_faces" /\ task.idx > 1
    /\ slot # NoneId
    /\ resp.op = "summary" /\ resp.dcel = slot /\ resp.count = Len(geo[slot])

\* what a holder of DCEL d can reach: its faces and their property dicts
DiagramView(d) ==
    [i \in 1..Len(heap[d].faces) |->
        [face |-> heap[d].faces[i],
         properties |-> bags[heap[d].faces[i].properties]]]

\* C3: once a diagram is in the slot nothing reachable from it is changed in
\* place; attaching population does not alter the published face properties.
C3_NoInPlaceMutation ==
    [][\A d \in 1..Len(heap) :
           (slot = d /\ slot' = d) => DiagramView(d)' = DiagramView(d)]_vars

FourQueries == {"query_point", "range_query", "top_by_population", "adjacent"}

\* C4: with an empty slot the point, range, top-by-population and adjacency
\* queries are rejected with 'No Voronoi diagram has been computed yet' and
\* leave the slot empty, and the summary reports available = false; with a
\* diagram set, the queries are answered from that diagram.
C4_QueriesFollowTheSlot ==
    [][resp' # resp =>
          /\ slot' = slot
          /\ slot = NoneId =>
                 /\ resp'.dcel = NoneId
                 /\ resp'.op \in FourQueries =>
                        resp'.status = 400 /\ resp'.detail = NoDiagramMsg
                 /\ resp'.op = "summary" =>
                        resp'.status = 200 /\ ~resp'.available
          /\ slot # NoneId =>
                 /\ resp'.dcel = slot
                 /\ resp'.status \in {200, 404}
                 /\ resp'.detail # NoDiagramMsg
                 /\ resp'.op = "summary" =>
                        resp'.available /\ resp'.count = Len(heap[slot].faces)
                 /\ resp'.op = "top_by_population" =>
                        resp'.count <= Len(heap[slot].faces)
                 /\ resp'.found =>
                        \E i \in 1..Len(heap[slot].faces) :
                            heap[slot].faces[i].facility_id = resp'.facility_id
      ]_vars

\* a query rejected after the slot was cleared
C4_Witness ==
    /\ lastSet.kind = "clear" /\ slot = NoneId
    /\ resp.op = "query_point" /\ resp.status = 400
    /\ resp.detail = NoDiagramMsg

\* C5: a compute with fewer than 3 facilities fails with InvalidInput in every
\* mode, before any routing query and without touching the slot.
C5_TooFewIsInvalidInput ==
    [][(task' # task /\ task'.n < MinFacilities) =>
          /\ task'.pc = "done"
          /\ task'.error = "InvalidInput"
          /\ task'.queries = 0
          /\ task'.dcel = NoneId
          /\ slot' = slot
          /\ heap' = heap
      ]_vars

\* a two-facility refinement request rejected while a diagram is in the slot
C5_Witness ==
    /\ task.error = "InvalidInput" /\ task.n = MinFacilities - 1
    /\ task.mode = "dominating"
    /\ slot # NoneId


\* ======================================================================
\* Geometry (specification SpecGeo)
\*
\* The plane is a lattice of unit squares ("atoms"), each named by the
\* integer coordinates of its centre.  A polygon is the set of atoms it
\* covers, its area the number of atoms, and two atoms belong to one
\* connected piece when they share a side.  Facilities sit on atom centres.

Lattice == (0..(GridW - 1)) \X (0..(GridH - 1))

Dist2(p, q) ==
    (p[1] - q[1]) * (p[1] - q[1]) + (p[2] - q[2]) * (p[2] - q[2])

Area(poly) == Cardinality(poly)

\* atoms sharing a side
Touch(p, q) == Dist2(p, q) = 1

RECURSIVE Grow(_, _)
Grow(piece, poly) ==
    LET more == {q \in poly \ piece : \E p \in piece : Touch(p, q)}
    IN  IF more = {} THEN piece ELSE Grow(piece \cup more, poly)

\* the polygons of a (multi-)polygon
Geoms(poly) == {Grow({p}, poly) : p \in poly}

\* lexicographic order of atoms, used where the library's order decides
Before(p, q) == p[1] < q[1] \/ (p[1] = q[1] /\ p[2] < q[2])

First(poly) == CHOOSE p \in poly : \A q \in poly : p = q \/ Before(p, q)

\* max(geoms, key=area): a piece of largest area, the earliest one on a tie
Largest(geoms) ==
    CHOOSE g \in geoms :
        \A h \in geoms :
            \/ Area(h) < Area(g)
            \/ (Area(h) = Area(g) /\ (h = g \/ Before(First(g), First(h))))

\* the region scipy's Voronoi gives a site: the atoms nearer to it than to
\* any other site (an atom cut in two equal halves by a bisector goes to
\* the site listed first)
VoronoiRegion(sites, i) ==
    {p \in Lattice :
        \A j \in 1..Len(sites) :
            \/ j = i
            \/ Dist2(p, sites[i]) < Dist2(p, sites[j])
            \/ (Dist2(p, sites[i]) = Dist2(p, sites[j]) /\ i < j)}

\* the empty set stands for None
_make_valid_polygon(poly) == poly

_clip_polygon(poly, bounding_box) ==
    LET clipped == poly \cap bounding_box
    IN  IF clipped = {} THEN {}
        ELSE IF Cardinality(Geoms(clipped)) > 1 THEN Largest(Geoms(clipped))
        ELSE clipped

\* the (point_idx, polygon) pairs, in point order; empty regions and
\* regions clipped away are skipped
RECURSIVE RegionsFrom(_, _, _)
RegionsFrom(sites, bounding_box, i) ==
    IF i > Len(sites) THEN <<>>
    ELSE LET poly    == _make_valid_polygon(VoronoiRegion(sites, i))
             clipped == _clip_polygon(poly, bounding_box)
             rest    == RegionsFrom(sites, bounding_box, i + 1)
         IN  IF poly = {} \/ clipped = {} THEN rest
             ELSE <<[point_idx |-> i, polygon |-> clipped]>> \o rest

_voronoi_regions(sites, bounding_box) == RegionsFrom(sites, bounding_box, 1)

\* the features of compute_voronoi
EuclideanFeatures(sites, bounding_box) ==
    LET polygons == _voronoi_regions(sites, bounding_box)
    IN  [k \in 1..Len(polygons) |->
            [facility_id |-> polygons[k].point_idx,
             cell_type   |-> "euclidean",
             area        |-> Area(polygons[k].polygon),
             geometry    |-> polygons[k].polygon]]


\* ----------------------------------------------------- weighted_voronoi.py
\* a / b < c / d for a, c >= 0 and b, d > 0, by continued fractions, so
\* that no product is formed
RECURSIVE FracLess(_, _, _, _)
FracLess(a, b, c, d) ==
    IF a \div b # c \div d THEN a \div b < c \div d
    ELSE IF c % d = 0 THEN FALSE
    ELSE IF a % b = 0 THEN TRUE
    ELSE FracLess(d, c % d, b, a % b)

\* sqrt(a) + p < sqrt(b) + q, for squared distances a, b and penalties p, q,
\* decided in integers
WeightedLess(a, p, b, q) ==
    LET c == q - p
        e == p - q
        x == b - a - e * e
        y == a - b - c * c
    IN  IF c = 0 THEN a < b
        ELSE IF c < 0
        THEN /\ x > 0
             /\ (a = 0 \/ FracLess(4 * e * e, x, x, a))
        ELSE \/ y < 0
             \/ (y = 0 /\ b > 0)
             \/ (y > 0 /\ FracLess(y, 4 * c * c, b, y))

\* position of facility i in the KD-tree answer for point pt: nearest
\* first, equal distances in index order (the tree is asked for
\* min(20, n) neighbours, which is all n of the facilities drawn here)
KDBefore(sites, pt, i, j) ==
    \/ Dist2(pt, sites[i]) < Dist2(pt, sites[j])
    \/ (Dist2(pt, sites[i]) = Dist2(pt, sites[j]) /\ i < j)

\* the comparison with every penalty taken off the distance instead of
\* added to it
PenaltyAsBonus(sites, penalties, pt, i, j) ==
    LET m == penalties[i].den * penalties[j].den
    IN  WeightedLess(m * m * Dist2(pt, sites[i]),
                     penalties[j].num * penalties[i].den,
                     m * m * Dist2(pt, sites[j]),
                     penalties[i].num * penalties[j].den)

\* a penalty is the average of its samples, kept as the fraction num / den;
\* euc_dist_i + penalty_i < euc_dist_j + penalty_j, over the common
\* denominator
WeightedDistLess(sites, penalties, pt, i, j) ==
    LET m == penalties[i].den * penalties[j].den
    IN  WeightedLess(m * m * Dist2(pt, sites[i]),
                     penalties[i].num * penalties[j].den,
                     m * m * Dist2(pt, sites[j]),
                     penalties[j].num * penalties[i].den)

\* the loop over indices keeps the first facility of least weighted distance
BestFid(sites, penalties, pt) ==
    CHOOSE i \in 1..Len(sites) :
        \A j \in 1..Len(sites) :
            \/ j = i
            \/ WeightedDistLess(sites, penalties, pt, i, j)
            \/ /\ ~WeightedDistLess(sites, penalties, pt, j, i)
               /\ KDBefore(sites, pt, i, j)

\* grid points inside the boundary assigned to facility i
Assignments(sites, penalties, boundary, i) ==
    {pt \in boundary : BestFid(sites, penalties, pt) = i}

Cross(o, a, b) ==
    (a[1] - o[1]) * (b[2] - o[2]) - (a[2] - o[2]) * (b[1] - o[1])

Collinear(points) ==
    \/ points = {}
    \/ \A b \in points, c \in points : Cross(First(points), b, c) = 0

Between(p, a, b) ==
    /\ Cross(a, b, p) = 0
    /\ (p[1] - a[1]) * (p[1] - b[1]) <= 0
    /\ (p[2] - a[2]) * (p[2] - b[2]) <= 0

\* MultiPoint(points).convex_hull, as the atoms whose centre the closed hull
\* holds; the hull of collinear points is a line and covers no area
ConvexHull(points) ==
    IF Collinear(points) THEN {}
    ELSE {p \in Lattice :
            \/ p \in points
            \/ \E a \in points, b \in points : Between(p, a, b)
            \/ ~\E s \in points :
                   \/ \A t \in points : Cross(p, s, t) >= 0
                   \/ \A t \in points : Cross(p, s, t) <= 0}

\* _polygon_to_geojson: a multipolygon is replaced by its largest polygon
_polygon_to_geojson(polygon) ==
    IF polygon = {} THEN {}
    ELSE IF Cardinality(Geoms(polygon)) > 1 THEN Largest(Geoms(polygon))
    ELSE polygon

\* facilities that get an entry in the result of _compute_weighted_voronoi
HasWeightedCell(sites, penalties, boundary, i) ==
    LET points == Assignments(sites, penalties, boundary, i)
    IN  Cardinality(points) >= 3

RECURSIVE WeightedFrom(_, _, _, _)
WeightedFrom(sites, penalties, boundary, i) ==
    IF i > Len(sites) THEN <<>>
    ELSE LET points  == Assignments(sites, penalties, boundary, i)
             clipped == ConvexHull(points) \cap boundary
             rest    == WeightedFrom(sites, penalties, boundary, i + 1)
         IN  IF ~HasWeightedCell(sites, penalties, boundary, i) THEN rest
             ELSE <<[facility_id |-> i,
                     cell_type   |-> "weighted_road",
                     area        |-> Area(clipped),
                     geometry    |-> _polygon_to_geojson(clipped)]>> \o rest

WeightedFeatures(sites, penalties, boundary) ==
    WeightedFrom(sites, penalties, boundary, 1)

\* ------------------------------------------------------ population_calc.py
RECURSIVE SumOver(_, _)
SumOver(f, S) ==
    IF S = {} THEN 0
    ELSE LET x == CHOOSE y \in S : TRUE
         IN  f[x] + SumOver(f, S \ {x})

RECURSIVE ProdOver(_, _)
ProdOver(f, S) ==
    IF S = {} THEN 1
    ELSE LET x == CHOOSE y \in S : TRUE
         IN  f[x] * ProdOver(f, S \ {x})

\* districts that contribute to a cell
Candidates(districts, geom) ==
    {d \in 1..Len(districts) :
        /\ geom \cap districts[d].geometry # {}
        /\ Area(districts[d].geometry) > 0}

\* the ratio taken against the cell's own area
TotalPopulationOverCell(districts, geom) ==
    LET cand == Candidates(districts, geom)
        num  == SumOver([d \in cand |->
                            districts[d].population
                              * Area(geom \cap districts[d].geometry)], cand)
    IN  IF geom = {} THEN 0 ELSE num \div Area(geom)

\* int(sum of population * intersection_area / district_area), the sum
\* taken exactly over the common denominator
TotalPopulation(districts, geom) ==
    LET cand  == Candidates(districts, geom)
        den   == ProdOver([d \in cand |-> Area(districts[d].geometry)], cand)
        num   == SumOver([d \in cand |->
                             districts[d].population
                               * Area(geom \cap districts[d].geometry)
                               * (den \div Area(districts[d].geometry))],
                         cand)
    IN  num \div den

\* int(weighted_pop) of one district of a cell
Contributed(districts, geom, d) ==
    (districts[d].population * Area(geom \cap districts[d].geometry))
        \div Area(districts[d].geometry)

\* the breakdown of a cell: its contributing districts, the greatest
\* contribution first (the sort is stable), cut to the top five
RECURSIVE BreakdownFrom(_, _, _)
BreakdownFrom(districts, geom, left) ==
    IF left = {} THEN <<>>
    ELSE LET d == CHOOSE e \in left : \A f \in left :
                      \/ Contributed(districts, geom, e)
                            > Contributed(districts, geom, f)
                      \/ /\ Contributed(districts, geom, e)
                              = Contributed(districts, geom, f)
                         /\ e <= f
         IN  <<[district |-> d,
                contributed_population |->
                    Contributed(districts, geom, d)]>>
               \o BreakdownFrom(districts, geom, left \ {d})

Breakdown(districts, geom) ==
    LET all == BreakdownFrom(districts, geom, Candidates(districts, geom))
    IN  SubSeq(all, 1, IF Len(all) < 5 THEN Len(all) ELSE 5)

\* the loop over the cells, with the district table loaded
calculate_weighted_population(districts, voronoi_features) ==
    [k \in 1..Len(voronoi_features) |->
        [facility_id      |-> voronoi_features[k].facility_id,
         total_population |->
             TotalPopulation(districts, voronoi_features[k].geometry),
         breakdown        |->
             Breakdown(districts, voronoi_features[k].geometry)]]

\* the whole method: _districts_gdf stays None when the data files are
\* missing, and the method then returns []
WeightedPopulationOf(data_found, districts, voronoi_features) ==
    IF ~data_found THEN <<>>
    ELSE calculate_weighted_population(districts, voronoi_features)


\* ------------------------------------------------------------------ inputs
\* where facilities may sit: the corners of the world and one inner atom
SitePoints ==
    {<<0, 0>>, <<GridW - 1, 0>>, <<0, GridH - 1>>, <<GridW - 1, GridH - 1>>,
     <<1, 1>>}

\* three facilities at distinct places, listed in lattice order
SiteLists ==
    {s \in [1..MinFacilities -> SitePoints] :
        \A i \in 1..MinFacilities, j \in 1..MinFacilities :
            i < j => Before(s[i], s[j])}

\* three facilities away from the corners: one inside the world and two
\* side by side on its first row
MidSites ==
    [k \in 1..MinFacilities |->
        IF k = 1 THEN <<GridW - 3, GridH - 2>>
        ELSE IF k = 2 THEN <<GridW - 2, 0>>
        ELSE <<GridW - 1, 0>>]

\* the clip polygon: the whole world, a mainland with an island (the
\* second column is sea), or an L of the first column and the first row
WholeWorld == Lattice
Islands == {p \in Lattice : p[1] # 1}
Notched == {p \in Lattice : p[1] = 0 \/ p[2] = 0}
Boundaries == {WholeWorld, Islands, Notched}

\* data/states.geojson: the states of the boundary store by name
StateNames == {"islands", "notched"}

StateStore ==
    [name \in StateNames |->
        IF name = "islands" THEN Islands ELSE Notched]

\* what a request may carry as state_filter: nothing, a state of the
\* store, or a name the store does not hold
StateFilters == {"none"} \cup StateNames \cup {"atlantis"}

\* _get_state_boundary_wgs84 / _get_state_boundary: the state's geometry,
\* None (the empty set) when no row has the name
_get_state_boundary(state_name) ==
    IF state_name \in DOMAIN StateStore THEN StateStore[state_name] ELSE {}

\* VoronoiEngine._india_boundary_projected and _india_boundary_wgs84: the
\* union of the states, None when the shapefile was not found
_india_boundary(india_loaded) == IF india_loaded THEN WholeWorld ELSE {}

\* _get_bounding_box: the box around the coordinates, widened on each side
\* by half its extent (an extent of at least one atom)
_get_bounding_box(sites) ==
    LET xs == {sites[i][1] : i \in 1..Len(sites)}
        ys == {sites[i][2] : i \in 1..Len(sites)}
        min_x == CHOOSE x \in xs : \A z \in xs : x <= z
        max_x == CHOOSE x \in xs : \A z \in xs : x >= z
        min_y == CHOOSE y \in ys : \A z \in ys : y <= z
        max_y == CHOOSE y \in ys : \A z \in ys : y >= z
        width  == IF max_x - min_x < 1 THEN 1 ELSE max_x - min_x
        height == IF max_y - min_y < 1 THEN 1 ELSE max_y - min_y
    IN  {p \in Lattice :
            /\ 2 * min_x - width <= 2 * p[1]
            /\ 2 * p[1] <= 2 * max_x + width
            /\ 2 * min_y - height <= 2 * p[2]
            /\ 2 * p[2] <= 2 * max_y + height}

\* compute_voronoi's choice of the clip polygon: the state when it is
\* found, else the country boundary or the bounding box
BoundingBoxOf(sites, state_filter, clip_to_india, india_loaded) ==
    IF state_filter # "none" /\ _get_state_boundary(state_filter) # {}
    THEN _get_state_boundary(state_filter)
    ELSE IF clip_to_india /\ _india_boundary(india_loaded) # {}
    THEN _india_boundary(india_loaded)
    ELSE _get_bounding_box(sites)

\* MultiPoint(coords).convex_hull.buffer(0.5)
BufferedHull(sites) ==
    LET points == {sites[i] : i \in 1..Len(sites)}
    IN  points \cup ConvexHull(points)
          \cup {p \in Lattice : \E a \in points, b \in points :
                                  Between(p, a, b)}

\* WeightedVoronoiEngine.compute's choice of the boundary: None (the empty
\* set) for a state that is not found or a country boundary not loaded
WeightedBoundaryOf(sites, state_filter, clip_to_india, india_loaded) ==
    IF state_filter # "none" THEN _get_state_boundary(state_filter)
    ELSE IF clip_to_india THEN _india_boundary(india_loaded)
    ELSE BufferedHull(sites)

\* two districts tiling the world, split between two columns
DistrictLists ==
    {<<[geometry |-> {p \in Lattice : p[1] < k},
        population |-> MaxPopulation],
       [geometry |-> {p \in Lattice : p[1] >= k}, population |-> q]>> :
        k \in 1..(GridW - 1), q \in {0, MaxPopulation}}

\* what _load_data leaves behind: no table when a data file is missing, a
\* table without rows, or a table of districts
DistrictStores ==
    {[data_found |-> FALSE, districts |-> <<>>],
     [data_found |-> TRUE, districts |-> <<>>]}
      \cup {[data_found |-> TRUE, districts |-> d] : d \in DistrictLists}

PenaltyMaps ==
    [1..MinFacilities -> {[num |-> p, den |-> 1] : p \in 0..MaxPenalty}]

\* a request: the facilities and the clip polygon
GeoInputs ==
    {[NoInputs EXCEPT !.sites = s, !.state_filter = f,
                      !.clip_to_india = c, !.india_loaded = l,
                      !.boundary = BoundingBoxOf(s, f, c, l)] :
        s \in SiteLists \cup {MidSites}, f \in StateFilters,
        c \in BOOLEAN, l \in BOOLEAN}

GeoInit ==
    /\ gin \in GeoInputs
    /\ gpc = "input"
    /\ gmode = "none"
    /\ cells = <<>>
    /\ popres = <<>>
    /\ gerror = "none"
    /\ gprev = NoPrev
    /\ gdcel = NoDcel
    /\ gquery = NoQuery

InitGeo == SlotInit /\ GeoInit /\ RoadOff

\* VoronoiEngine.compute_voronoi over the inputs
ComputeEuclidean ==
    /\ gpc = "input"
    /\ cells' = EuclideanFeatures(gin.sites, gin.boundary)
    /\ gmode' = "euclidean"
    /\ gpc' = "cells"
    /\ UNCHANGED <<gin, popres, gerror, gprev, gdcel, gquery, slotVars,
                 roadVars>>

\* WeightedVoronoiEngine: the cells of _compute_weighted_voronoi
\* under the boundary the engine picks; without one, boundary.bounds
\* raises AttributeError
ComputeWeighted ==
    /\ gpc = "input"
    /\ \E penalties \in PenaltyMaps :
       \E boundary \in {WeightedBoundaryOf(gin.sites, gin.state_filter,
                              gin.clip_to_india, gin.india_loaded)} :
          IF boundary = {}
          THEN /\ gerror' = "AttributeError"
               /\ gpc' = "failed"
               /\ gin' = [gin EXCEPT !.penalties = penalties]
               /\ UNCHANGED cells
          ELSE /\ gin' = [gin EXCEPT !.penalties = penalties,
                                     !.boundary = boundary]
               /\ cells' = WeightedFeatures(gin.sites, penalties, boundary)
               /\ gpc' = "cells"
               /\ UNCHANGED gerror
    /\ gmode' = "weighted"
    /\ UNCHANGED <<popres, gprev, gdcel, gquery, slotVars,
                 roadVars>>

\* _compute_weighted_voronoi once more over the same facilities, boundary
\* and grid, the road penalty of one facility having grown
RaisePenalty ==
    /\ gpc = "cells"
    /\ gmode = "weighted"
    /\ \E i \in 1..Len(gin.sites) :
       \E higher \in (gin.penalties[i].num + 1)..MaxPenalty :
       \E penalties \in {[gin.penalties EXCEPT ![i].num = higher]} :
          /\ gprev' = [penalties |-> gin.penalties, cells |-> cells,
                       raised |-> i]
          /\ gin' = [gin EXCEPT !.penalties = penalties]
          /\ cells' = WeightedFeatures(gin.sites, penalties, gin.boundary)
    /\ gpc' = "raised"
    /\ UNCHANGED <<gmode, popres, gerror, gdcel, gquery, slotVars, roadVars>>

\* PopulationService.calculate_weighted_population over the emitted cells
WeighPopulation ==
    /\ gpc = "cells"
    /\ \E store \in DistrictStores :
          /\ gin' = [gin EXCEPT !.districts = store.districts,
                                !.data_found = store.data_found]
          /\ popres' = WeightedPopulationOf(store.data_found,
                                            store.districts, cells)
    /\ gpc' = "weighed"
    /\ UNCHANGED <<gmode, cells, gerror, gprev, gdcel, gquery, slotVars,
                 roadVars>>

NextGeo ==
    \/ ComputeEuclidean
    \/ ComputeWeighted
    \/ RaisePenalty
    \/ WeighPopulation

SpecGeo == InitGeo /\ [][NextGeo]_vars

\* the spacing of the sampling grid (np.linspace over the boundary's
\* bounds): neighbouring grid points are one atom apart
GridStep == 1

\* sites[i] stays strictly farther from pt than sites[j] after tau has
\* been added to the weighted distance of sites[j]
WorseByMoreThan(sites, penalties, pt, i, j, tau) ==
    WeightedDistLess(sites,
        [penalties EXCEPT ![j] =
            [num |-> penalties[j].num + tau * penalties[j].den,
             den |-> penalties[j].den]],
        pt, j, i)

\* C13: in weighted mode, for every grid point p of the emitted cell of
\* generator f_i and every other generator f_j, the weighted distance
\* d(p, f_i) + penalty(f_i) is at most d(p, f_j) + penalty(f_j) + tau,
\* with tau one grid step
C13_CellPointsAreNearOptimal ==
    (gmode = "weighted" /\ gpc = "cells") =>
        \A k \in 1..Len(cells) : \A p \in cells[k].geometry :
            \A j \in 1..Len(gin.sites) :
                ~WorseByMoreThan(gin.sites, gin.penalties, p,
                                 cells[k].facility_id, j, GridStep)

\* the grid points the weighted assignment gives to facility i
OwnedSet(penalties, i) == Assignments(gin.sites, penalties, gin.boundary, i)

\* the area of facility i's emitted cell, 0 when none is emitted
CellArea(features, i) ==
    SumOver([k \in 1..Len(features) |->
                IF features[k].facility_id = i THEN features[k].area ELSE 0],
            1..Len(features))

\* C14: in weighted mode, with the facilities, boundary, grid and all other
\* penalties held fixed, increasing one generator's penalty never adds a
\* grid point to that generator's owned set, so its cell never becomes
\* larger
C14_HigherPenaltyNeverEnlarges ==
    gpc = "raised" =>
        /\ OwnedSet(gin.penalties, gprev.raised)
              \subseteq OwnedSet(gprev.penalties, gprev.raised)
        /\ CellArea(cells, gprev.raised) <= CellArea(gprev.cells, gprev.raised)

\* a raised penalty took grid points away from the facility, which still
\* has a cell, smaller than before
C14_Witness ==
    /\ gpc = "raised"
    /\ OwnedSet(gin.penalties, gprev.raised)
          # OwnedSet(gprev.penalties, gprev.raised)
    /\ CellArea(cells, gprev.raised) > 0
    /\ CellArea(cells, gprev.raised) < CellArea(gprev.cells, gprev.raised)

\* ----------------------------------------------------------------------
\* Claims on the emitted cells (specification SpecGeo)

\* the part of the plane the emitted cells cover
Union(features) ==
    {p \in Lattice : \E k \in 1..Len(features) : p \in features[k].geometry}

\* the weighted distances of facilities i and j from pt are exactly equal
WeightedTie(pt, i, j) ==
    /\ ~WeightedDistLess(gin.sites, gin.penalties, pt, i, j)
    /\ ~WeightedDistLess(gin.sites, gin.penalties, pt, j, i)

\* C25: in weighted mode a grid point whose weighted distance d_euclid +
\* penalty is exactly equal for two or more generators is owned by the
\* generator with the smallest id among them
C25_TieGoesToSmallestId ==
    (gmode = "weighted" /\ gpc = "cells") =>
        \A i \in 1..Len(gin.sites) :
            \A pt \in OwnedSet(gin.penalties, i) :
                \A j \in 1..Len(gin.sites) :
                    WeightedTie(pt, i, j) => i <= j

\* C30: for every combination of clip options and boundary-store contents
\* (state_filter found or not, country boundary loaded or missing,
\* clip_to_india true or false) the weighted engine obtains a usable clip
\* polygon for its grid, falling back to the buffered convex hull of the
\* facilities when the lookup yields none, and completes without an
\* internal error
C30_WeightedGetsAClipPolygon ==
    gmode = "weighted" =>
        /\ gpc # "failed"
        /\ gerror = "none"
        /\ gin.boundary # {}
        /\ gin.boundary =
              IF WeightedBoundaryOf(gin.sites, gin.state_filter,
                                    gin.clip_to_india, gin.india_loaded) # {}
              THEN WeightedBoundaryOf(gin.sites, gin.state_filter,
                                      gin.clip_to_india, gin.india_loaded)
              ELSE BufferedHull(gin.sites)

\* C6: the union of the emitted Euclidean cells equals the clip polygon --
\* every part of the clip region, every connected piece of a cell's
\* intersection with a non-convex or multi-part boundary included, belongs
\* to some emitted cell
C6_UnionIsClipPolygon ==
    (gpc # "input" /\ gmode = "euclidean") => Union(cells) = gin.boundary

SumPopulation(results) ==
    SumOver([k \in 1..Len(results) |-> results[k].total_population],
            1..Len(results))

DistrictTotal(districts) ==
    SumOver([d \in 1..Len(districts) |-> districts[d].population],
            1..Len(districts))

C11_NoDataGivesZeroPerCell ==
    (gpc = "weighed" /\ (~gin.data_found \/ gin.districts = <<>>)) =>
        /\ Len(popres) = Len(cells)
        /\ \A k \in 1..Len(popres) :
              /\ popres[k].facility_id = cells[k].facility_id
              /\ popres[k].total_population = 0
              /\ popres[k].breakdown = <<>>

\* C12: a compute whose state_filter names a state that is absent from the
\* boundary store fails with BoundaryNotFound, surfaced to the caller
C12_AbsentStateIsBoundaryNotFound ==
    (gpc # "input" /\ gin.state_filter \notin StateNames \cup {"none"}) =>
        (gpc = "failed" /\ gerror = "BoundaryNotFound")


\* ======================================================================
\* Road-distance computations (specification SpecRoad)
\*
\* The three computations that ask the routing oracle: the penalties of the
\* weighted engine, the grid assignment of the route engine and the batched
\* reassignment of dominating refinement.  Each starts from the Euclidean
\* diagram and its DCEL.

\* ------------------------------------------------ the DCEL of the diagram
FaceIds(features) == {features[k].facility_id : k \in 1..Len(features)}

\* dcel.get_face_by_facility_id, for an id that has a face
FaceOf(features, fid) ==
    features[CHOOSE k \in 1..Len(features) : features[k].facility_id = fid]

\* a place with fractional coordinates (sx / n, sy / n)
Place(p) == [sx |-> p[1], sy |-> p[2], n |-> 1]

\* polygon.centroid
PolygonCentroid(poly) ==
    [sx |-> SumOver([p \in poly |-> p[1]], poly),
     sy |-> SumOver([p \in poly |-> p[2]], poly),
     n  |-> Area(poly)]

get_facility_centroid(features, fid) ==
    PolygonCentroid(FaceOf(features, fid).geometry)

\* n * n times the squared distance from the atom pt to the place c
PlaceDist2(pt, c) ==
    (c.n * pt[1] - c.sx) * (c.n * pt[1] - c.sx)
      + (c.n * pt[2] - c.sy) * (c.n * pt[2] - c.sy)

\* pt is nearer to place c than to place d
PlaceNearer(pt, c, d) ==
    PlaceDist2(pt, c) * d.n * d.n < PlaceDist2(pt, d) * c.n * c.n

\* ids in increasing order
RECURSIVE IdsInOrder(_)
IdsInOrder(ids) ==
    IF ids = {} THEN <<>>
    ELSE LET f == CHOOSE g \in ids : \A h \in ids : g <= h
         IN  <<f>> \o IdsInOrder(ids \ {f})

HasPolygon(face) == face.geometry # {}

\* the faces that have a polygon, sorted by the distance of their centroid
\* from pt; the sort is stable, so faces at one distance stay in face order
FacesByDistance(faces, pt) ==
    LET features == SelectSeq(faces, HasPolygon)
        n == Len(features)
        c == [k \in 1..n |-> PolygonCentroid(features[k].geometry)]
        rank == [k \in 1..n |->
                    Cardinality({l \in 1..n :
                        \/ PlaceNearer(pt, c[l], c[k])
                        \/ (~PlaceNearer(pt, c[k], c[l]) /\ l < k)})]
    IN  [r \in 1..n |->
            features[CHOOSE k \in 1..n : rank[k] = r - 1].facility_id]

Prefix(seq, k) == SubSeq(seq, 1, IF k < Len(seq) THEN k ELSE Len(seq))

\* the candidates of adaptive_k / k_nearest_neighbors: with fewer than
\* base_k faces both return every face, nearest first
k_nearest_neighbors(features, pt, k) ==
    Prefix(FacesByDistance(features, pt), k)

\* ------------------------------------------------------------ the oracle
\* The road network: the road distance from an atom to a place is their
\* straight distance plus a detour.  A river runs north-south through the
\* middle of the world; on the "river" map crossing it costs MaxPenalty, on
\* the "sea" map there is no crossing, on the "plain" map there is no river.
RoadMaps == {"plain", "river", "sea"}

West(x, n) == 2 * x < GridW * n

Separated(src, dst) == West(src[1], 1) # West(dst.sx, dst.n)

\* a table entry: null, or the distance sqrt(a) / n + det
NullEntry == [null |-> TRUE, a |-> 0, n |-> 1, det |-> 0]

TableEntry(roads, src, dst) ==
    IF roads = "sea" /\ Separated(src, dst) THEN NullEntry
    ELSE [null |-> FALSE, a |-> PlaceDist2(src, dst), n |-> dst.n,
          det  |-> IF roads = "river" /\ Separated(src, dst)
                   THEN MaxPenalty ELSE 0]

EntryLess(d, e) ==
    WeightedLess(d.a * e.n * e.n, d.det * d.n * e.n,
                 e.a * d.n * d.n, e.det * d.n * e.n)

\* what one request to the oracle can come back as
HttpErrors == {"timeout", "transport", "status"}
FaultKinds ==
    HttpErrors \cup {"code", "not_json", "no_rows", "short", "long",
                     "reordered"}

\* the oracle of one run: up, down for the whole run, or up with one fault
\* of some kind at one of its first calls
OraclePlans ==
    {[mode |-> "up", at |-> 0, kind |-> "ok"],
     [mode |-> "down", at |-> 0, kind |-> "transport"]}
    \cup {[mode |-> "fault", at |-> k, kind |-> f] :
             k \in 1..MaxFaultAt, f \in FaultKinds}

ReplyKind(plan, call_no) ==
    IF plan.mode = "down" THEN "transport"
    ELSE IF plan.mode = "fault" /\ plan.at = call_no THEN plan.kind
    ELSE "ok"

\* the body of a reply whose full distance matrix would be full: a short
\* reply lacks the last row or, with one row, the last entry of that row; a
\* long reply repeats its last row; a reordered reply lists the rows last
\* to first
OsrmReply(kind, full) ==
    [kind |-> kind,
     distances |->
        IF kind = "ok" THEN full
        ELSE IF kind = "short"
        THEN IF Len(full) > 1 THEN SubSeq(full, 1, Len(full) - 1)
             ELSE <<SubSeq(full[1], 1, Len(full[1]) - 1)>>
        ELSE IF kind = "long" THEN Append(full, full[Len(full)])
        ELSE IF kind = "reordered"
        THEN [i \in 1..Len(full) |-> full[Len(full) + 1 - i]]
        ELSE <<>>]


\* ----------------------------------------------------- routing_service.py
NotConnected == [connected |-> FALSE, distance |-> NullEntry]

\* RoutingService.batch_distance_sync for one origin: the reply's single
\* row starts with the origin's distance to itself.  raised says that an
\* exception other than httpx.HTTPError left the method.
batch_distance_sync(destinations, reply) ==
    LET none == [raised |-> FALSE,
                 results |-> [i \in 1..Len(destinations) |-> NotConnected]]
        fail == [raised |-> TRUE, results |-> <<>>]
    IN  IF reply.kind \in HttpErrors THEN none
        ELSE IF reply.kind = "not_json" THEN fail
        ELSE IF reply.kind = "code" THEN none
        ELSE IF reply.distances = <<>> THEN fail
        ELSE LET distances == reply.distances[1]
             IN  [raised |-> FALSE,
                  results |->
                     [i \in 1..Len(destinations) |->
                         IF i + 1 <= Len(distances) /\ ~distances[i + 1].null
                         THEN [connected |-> TRUE,
                               distance |-> distances[i + 1]]
                         ELSE NotConnected]]

\* the matrix a one-origin request asks for
OneRow(roads, origin, destinations) ==
    <<<<TableEntry(roads, origin, Place(origin))>>
        \o [j \in 1..Len(destinations) |->
               TableEntry(roads, origin, destinations[j])]>>

\* the first index of least connected distance, index 1 when none is
\* connected
BestIdx(results) ==
    IF \A i \in 1..Len(results) : ~results[i].connected THEN 1
    ELSE CHOOSE i \in 1..Len(results) :
            /\ results[i].connected
            /\ \A j \in 1..Len(results) :
                  \/ j = i
                  \/ ~results[j].connected
                  \/ EntryLess(results[i].distance, results[j].distance)
                  \/ /\ ~EntryLess(results[j].distance, results[i].distance)
                     /\ i < j

\* ----------------------------------------------- route_voronoi_service.py
\* RouteVoronoiEngine._assign_grid_point_sync; every face has a centroid
_assign_grid_point_sync(features, roads, pt, reply_kind) ==
    LET candidates   == k_nearest_neighbors(features, pt, base_k)
        destinations == [j \in 1..Len(candidates) |->
                            get_facility_centroid(features, candidates[j])]
        reply   == OsrmReply(reply_kind, OneRow(roads, pt, destinations))
        route   == batch_distance_sync(destinations, reply)
        best    == BestIdx(route.results)
    IN  IF candidates = <<>>
        THEN [raised |-> FALSE, pt |-> pt, facility_id |-> NoneId,
              connected |-> FALSE, k_used |-> 0]
        ELSE IF route.raised
        THEN [raised |-> TRUE, pt |-> pt, facility_id |-> NoneId,
              connected |-> FALSE, k_used |-> 0]
        ELSE [raised |-> FALSE, pt |-> pt,
              facility_id |-> candidates[best],
              connected |-> route.results[best].connected,
              k_used |-> Len(candidates)]

\* ------------------------------------------------- dominating_voronoi.py
\* find_nearest_euclidean: the first destination of least distance
find_nearest_euclidean(pt, destinations, dest_ids) ==
    dest_ids[CHOOSE i \in 1..Len(destinations) :
                \A j \in 1..Len(destinations) :
                    \/ j = i
                    \/ PlaceNearer(pt, destinations[i], destinations[j])
                    \/ /\ ~PlaceNearer(pt, destinations[j], destinations[i])
                       /\ i < j]

\* the first index of least non-null distance in a row, 0 for none
MinIdx(row) ==
    IF \A j \in 1..Len(row) : row[j].null THEN 0
    ELSE CHOOSE i \in 1..Len(row) :
            /\ ~row[i].null
            /\ \A j \in 1..Len(row) :
                  \/ j = i
                  \/ row[j].null
                  \/ EntryLess(row[i], row[j])
                  \/ (~EntryLess(row[j], row[i]) /\ i < j)

\* DominatingVoronoiEngine._query_osrm_table: one (pt, facility_id) per row
\* of the reply, or the Euclidean fallback for every source.  A row beyond
\* the sources, or a least entry beyond the destinations, raises IndexError
\* inside the try block: the handler then appends the fallback of every
\* source to the assignments already made.
_query_osrm_table(sources, destinations, dest_ids, reply) ==
    LET fallback ==
            [i \in 1..Len(sources) |->
                [pt |-> sources[i],
                 facility_id |->
                     find_nearest_euclidean(sources[i], destinations,
                                            dest_ids)]]
        distances == reply.distances
        raises(i) == \/ i > Len(sources)
                     \/ MinIdx(distances[i]) > Len(dest_ids)
        raising   == {i \in 1..Len(distances) : raises(i)}
        done      == IF raising = {} THEN Len(distances)
                     ELSE (CHOOSE i \in raising :
                              \A j \in raising : i <= j) - 1
        made      == [i \in 1..done |->
                         IF distances[i] = <<>> \/ MinIdx(distances[i]) = 0
                         THEN fallback[i]
                         ELSE [pt |-> sources[i],
                               facility_id |->
                                   dest_ids[MinIdx(distances[i])]]]
    IN  IF reply.kind \in HttpErrors \cup {"not_json", "code"} THEN fallback
        ELSE IF raising = {} THEN made
        ELSE made \o fallback

\* the matrix a table request from sources to destinations asks for
Matrix(roads, sources, destinations) ==
    [i \in 1..Len(sources) |->
        [j \in 1..Len(destinations) |->
            TableEntry(roads, sources[i], destinations[j])]]

\* ---------------------------------------------------- weighted_voronoi.py
\* the other facilities by straight distance from facility i, nearest
\* first (stable), cut to config.num_neighbor_samples
NeighborSamples(sites, ids, config, i) ==
    LET others == {j \in ids : j # i}
        rank(j) == Cardinality({l \in others :
                       \/ Dist2(sites[i], sites[l]) < Dist2(sites[i], sites[j])
                       \/ /\ Dist2(sites[i], sites[l]) = Dist2(sites[i], sites[j])
                          /\ l < j})
        sorted == [r \in 1..Cardinality(others) |->
                      CHOOSE j \in others : rank(j) = r - 1]
    IN  Prefix(sorted, config.num_neighbor_samples)

\* the mean taken over every sampled neighbour, connected or not
RoadPenaltyOverAllSamples(sites, ids, roads, config, i, reply_kind) ==
    LET neighbors == NeighborSamples(sites, ids, config, i)
        locs      == [j \in 1..Len(neighbors) |-> Place(sites[neighbors[j]])]
        reply     == OsrmReply(reply_kind, OneRow(roads, sites[i], locs))
        res       == batch_distance_sync(locs, reply)
        conn      == IF res.raised THEN {}
                     ELSE {j \in 1..Len(locs) : res.results[j].connected}
    IN  [asked   |-> neighbors # <<>>,
         counted |-> neighbors # <<>> /\ ~res.raised,
         penalty |->
            IF conn = {} THEN [num |-> 0, den |-> 1]
            ELSE [num |-> config.penalty_scale
                            * SumOver([j \in conn |->
                                          res.results[j].distance.det], conn),
                  den |-> Len(locs)]]

\* one round of the loop of _compute_road_penalties: the penalty of
\* facility i, penalty_scale times the mean of road distance - straight
\* distance over the connected neighbours; a failed request leaves no
\* sample
RoadPenalty(sites, ids, roads, config, i, reply_kind) ==
    LET neighbors == NeighborSamples(sites, ids, config, i)
        locs      == [j \in 1..Len(neighbors) |-> Place(sites[neighbors[j]])]
        reply     == OsrmReply(reply_kind, OneRow(roads, sites[i], locs))
        res       == batch_distance_sync(locs, reply)
        conn      == IF res.raised THEN {}
                     ELSE {j \in 1..Len(locs) : res.results[j].connected}
    IN  [asked   |-> neighbors # <<>>,
         counted |-> neighbors # <<>> /\ ~res.raised,
         penalty |->
            IF conn = {} THEN [num |-> 0, den |-> 1]
            ELSE [num |-> config.penalty_scale
                            * SumOver([j \in conn |->
                                          res.results[j].distance.det], conn),
                  den |-> Cardinality(conn)]]


\* --------------------------------------- steps A to C of the refinement
\* touches(): the two cells share a side or a corner
Touches(poly, other) == \E p \in poly, q \in other : Dist2(p, q) <= 2

\* _build_adjacency_graph: a facility gets a key once a neighbour is found
_build_adjacency_graph(features) ==
    LET ids   == FaceIds(features)
        nb(f) == {g \in ids \ {f} :
                     Touches(FaceOf(features, f).geometry,
                             FaceOf(features, g).geometry)}
    IN  [f \in {g \in ids : nb(g) # {}} |-> nb(f)]

AllNodes(adjacency) ==
    DOMAIN adjacency \cup UNION {adjacency[f] : f \in DOMAIN adjacency}

\* every node of the graph taken for a neighbour
EveryNodeIsNeighbor(adjacency, node) == AllNodes(adjacency) \ {node}

NeighborsOf(adjacency, node) ==
    IF node \in DOMAIN adjacency THEN adjacency[node] ELSE {}

Coverage(adjacency, node, uncovered) ==
    Cardinality(({node} \cup NeighborsOf(adjacency, node)) \cap uncovered)

\* any node outside the set that covers something, best or not
AnyCoveringNode(adjacency, dominating_set, uncovered) ==
    {node \in AllNodes(adjacency) \ dominating_set :
        Coverage(adjacency, node, uncovered) > 0}

\* the nodes one round of the greedy loop may pick: those of greatest
\* coverage; which of them comes first is the iteration order of a set
BestNodes(adjacency, dominating_set, uncovered) ==
    {node \in AllNodes(adjacency) \ dominating_set :
        /\ Coverage(adjacency, node, uncovered) > 0
        /\ \A other \in AllNodes(adjacency) \ dominating_set :
              Coverage(adjacency, other, uncovered)
                <= Coverage(adjacency, node, uncovered)}

\* define_local_regions for one centre
RegionOf(features, adjacency, boundary, center) ==
    LET neighborhood == {center} \cup NeighborsOf(adjacency, center)
        polygons == {FaceOf(features, f).geometry :
                        f \in neighborhood \cap FaceIds(features)}
    IN  [center |-> center,
         region |-> (UNION polygons) \cap boundary,
         neighborhood |-> IdsInOrder(neighborhood)]

\* atoms of a polygon row by row, as the grid loops visit them
RowBefore(p, q) == p[2] < q[2] \/ (p[2] = q[2] /\ p[1] < q[1])

RECURSIVE _generate_grid_in_polygon(_)
_generate_grid_in_polygon(polygon) ==
    IF polygon = {} THEN <<>>
    ELSE LET p == CHOOSE q \in polygon :
                      \A r \in polygon : q = r \/ RowBefore(q, r)
         IN  <<p>> \o _generate_grid_in_polygon(polygon \ {p})

RECURSIVE Batches(_, _)
Batches(points, dest_ids) ==
    IF points = <<>> THEN <<>>
    ELSE IF Len(points) <= BatchSize
    THEN <<[sources |-> points, dest_ids |-> dest_ids]>>
    ELSE <<[sources |-> SubSeq(points, 1, BatchSize), dest_ids |-> dest_ids]>>
           \o Batches(SubSeq(points, BatchSize + 1, Len(points)), dest_ids)

\* the table requests of reassign_region_by_road over every region
RECURSIVE RegionCalls(_, _, _, _)
RegionCalls(features, adjacency, boundary, centers) ==
    IF centers = <<>> THEN <<>>
    ELSE LET r    == RegionOf(features, adjacency, boundary, Head(centers))
             grid == _generate_grid_in_polygon(r.region)
             dest == SelectSeq(r.neighborhood,
                               LAMBDA f : f \in FaceIds(features))
             rest == RegionCalls(features, adjacency, boundary, Tail(centers))
         IN  IF r.region = {} \/ dest = <<>> THEN rest
             ELSE Batches(grid, dest) \o rest

\* ------------------------------------------------------- polygonisation
\* the Delaunay triangles of sample points on the lattice: the two halves
\* of a unit cell whose four corners are samples, the triangle of a cell
\* with three
Triangles(points) ==
    LET corners(c) == {<<c[1], c[2]>>, <<c[1] + 1, c[2]>>,
                       <<c[1], c[2] + 1>>, <<c[1] + 1, c[2] + 1>>}
        have(c)    == corners(c) \cap points
    IN  UNION {IF Cardinality(have(c)) = 4
               THEN {corners(c) \ {<<c[1] + 1, c[2] + 1>>},
                     corners(c) \ {<<c[1], c[2]>>}}
               ELSE IF Cardinality(have(c)) = 3 THEN {have(c)}
               ELSE {} : c \in Lattice}

\* the facility assigned to a sample point
FidAt(assignments, p) ==
    assignments[CHOOSE k \in 1..Len(assignments) :
                   /\ assignments[k].pt = p
                   /\ \A l \in 1..(k - 1) : assignments[l].pt # p].facility_id

\* Counter(vertex_facilities).most_common(1): the facility of two vertices,
\* or of the first vertex when all three differ
Majority(assignments, triangle) ==
    LET fid(p) == FidAt(assignments, p)
    IN  IF \E p \in triangle, q \in triangle : p # q /\ fid(p) = fid(q)
        THEN fid(CHOOSE p \in triangle :
                     \E q \in triangle : p # q /\ fid(p) = fid(q))
        ELSE fid(First(triangle))

\* _interpolate_polygons: facility -> the dissolved triangles it won,
\* clipped; facilities that won none are absent
_interpolate_polygons(assignments, boundary) ==
    LET points == {assignments[k].pt : k \in 1..Len(assignments)}
        tris   == IF Len(assignments) < 3 THEN {} ELSE Triangles(points)
        winner == [t \in tris |-> Majority(assignments, t)]
        won(f) == UNION {t \in tris : winner[t] = f}
        fids   == {winner[t] : t \in tris}
    IN  [f \in {g \in fids : won(g) \cap boundary # {}} |->
            won(f) \cap boundary]

\* merge_refinements
RoadRefined(features, assignments, boundary) ==
    LET facility_polygons == _interpolate_polygons(assignments, boundary)
        order == IdsInOrder(DOMAIN facility_polygons)
    IN  [k \in 1..Len(order) |->
            [facility_id |-> order[k],
             cell_type   |-> "road_refined",
             area        |-> Area(facility_polygons[order[k]]),
             geometry    |-> facility_polygons[order[k]]]]

\* every Euclidean cell is appended, refined or not
EuclideanFallbackUnfiltered(features, road_refined_fids) ==
    [k \in 1..Len(features) |->
        [features[k] EXCEPT !.cell_type = "euclidean_fallback"]]

EuclideanFallback(features, road_refined_fids) ==
    LET keep == SelectSeq(features,
                    LAMBDA f : f.facility_id # NoneId
                               /\ f.facility_id \notin road_refined_fids)
    IN  [k \in 1..Len(keep) |->
            [keep[k] EXCEPT !.cell_type = "euclidean_fallback"]]

merge_refinements(features, assignments, boundary) ==
    LET refined == RoadRefined(features, assignments, boundary)
    IN  refined \o EuclideanFallback(features, FaceIds(refined))

\* the features of RouteVoronoiEngine.compute_sync
RouteFeatures(assignments, boundary) ==
    LET facility_polygons == _interpolate_polygons(assignments, boundary)
        order == IdsInOrder(DOMAIN facility_polygons)
    IN  [k \in 1..Len(order) |->
            [facility_id |-> order[k],
             cell_type   |-> "route_based",
             area        |-> Area(facility_polygons[order[k]]),
             geometry    |-> facility_polygons[order[k]]]]


\* DCEL._geojson_to_polygon: None (the empty set) without geometry or
\* coordinates, the largest polygon of a MultiPolygon
_geojson_to_polygon(geometry) ==
    IF geometry = {} THEN {} ELSE Largest(Geoms(geometry))

\* DCEL.build_from_voronoi: one face per feature, entered in _face_lookup
\* under its facility id, and in _geometry_to_face when it has a polygon
build_from_voronoi(features) ==
    LET faces == [idx \in 1..Len(features) |->
                    [id          |-> idx - 1,
                     facility_id |-> features[idx].facility_id,
                     polygon     |->
                         _geojson_to_polygon(features[idx].geometry)]]
    IN  [faces |-> faces,
         _face_lookup |->
             {<<faces[idx].facility_id, idx>> : idx \in
                 {i \in 1..Len(faces) :
                     \A j \in 1..Len(faces) :
                         faces[j].facility_id = faces[i].facility_id
                             => j <= i}},
         _geometry_to_face |->
             {idx \in 1..Len(faces) : faces[idx].polygon # {}}]

\* self.faces, each with its facility id and polygon
FaceFeatures(d) ==
    [idx \in 1..Len(d.faces) |->
        [facility_id |-> d.faces[idx].facility_id,
         geometry    |-> d.faces[idx].polygon]]

\* ------------------------------------------------------------------ runs
RoadInputs ==
    [sites : SiteLists, boundary : Boundaries, roads : RoadMaps,
     oracle : OraclePlans, config : {DefaultConfig}]

\* the WeightedVoronoiConfig a weighted request may carry
WeightedConfigs ==
    [penalty_scale : {penalty_scale, penalty_scale + 1},
     num_neighbor_samples : {1, num_neighbor_samples}]

RoadInit ==
    /\ rin \in RoadInputs
    /\ rcomp = "none"
    /\ rpc = "input"
    /\ reuclid = <<>>
    /\ rdom = NoDom
    /\ rcalls = <<>>
    /\ rassign = <<>>
    /\ rpen = <<>>
    /\ rqueries = 0
    /\ rsent = 0
    /\ rlast = NoCall
    /\ rout = <<>>
    /\ rnet = NoNet

InitRoad == SlotInit /\ GeoOff /\ RoadInit

\* DominatingVoronoiEngine.compute, step A: compute_euclidean_voronoi, which
\* runs compute_voronoi_with_dcel and so publishes the Euclidean DCEL
StartRefinement ==
    /\ rpc = "input"
    /\ LET features  == EuclideanFeatures(rin.sites, rin.boundary)
           adjacency == _build_adjacency_graph(features)
       IN  /\ reuclid' = features
           /\ rdom' = [adjacency |-> adjacency,
                       uncovered |-> AllNodes(adjacency),
                       dominating_set |-> {},
                       picks |-> <<>>]
    /\ heap' = Append(heap, build_from_voronoi(reuclid'))
    /\ set_current_dcel(Len(heap'))
    /\ lastSet' = [kind |-> "compute", dcel |-> Len(heap')]
    /\ rcomp' = "refinement"
    /\ rpc' = "dominating"
    /\ UNCHANGED <<rin, rcalls, rassign, rpen, rqueries, rsent, rlast, rout,
                   rnet, geo, bags, task, resp, engine, geoVars>>

\* step B: one round of the loop of compute_dominating_set
PickCenter ==
    /\ rpc = "dominating"
    /\ rdom.uncovered # {}
    /\ \E best_node \in BestNodes(rdom.adjacency, rdom.dominating_set,
                                  rdom.uncovered) :
          rdom' = [rdom EXCEPT
                     !.dominating_set = @ \cup {best_node},
                     !.picks = Append(@, best_node),
                     !.uncovered = @ \ ({best_node} \cup
                                   NeighborsOf(rdom.adjacency, best_node))]
    /\ UNCHANGED <<rin, rcomp, rpc, reuclid, rcalls, rassign, rpen, rqueries,
                   rsent, rlast, rout, rnet, slotVars, geoVars>>

\* step C, and the grid points and batches of step D
DefineRegions ==
    /\ rpc = "dominating"
    /\ rdom.uncovered = {}
    /\ rcalls' = RegionCalls(reuclid, rdom.adjacency, rin.boundary,
                             IdsInOrder(rdom.dominating_set))
    /\ rpc' = "calls"
    /\ UNCHANGED <<rin, rcomp, reuclid, rdom, rassign, rpen, rqueries, rsent,
                   rlast, rout, rnet, slotVars, geoVars>>

\* step D: one batch of reassign_region_by_road
TableQuery ==
    /\ rpc = "calls" /\ rcomp = "refinement"
    /\ rcalls # <<>>
    /\ LET batch == Head(rcalls)
           destinations ==
               [j \in 1..Len(batch.dest_ids) |->
                   get_facility_centroid(reuclid, batch.dest_ids[j])]
           kind  == ReplyKind(rin.oracle, rsent + 1)
           reply == OsrmReply(kind, Matrix(rin.roads, batch.sources,
                                           destinations))
       IN  \E batch_assignments \in
                  {_query_osrm_table(batch.sources, destinations,
                                     batch.dest_ids, reply)} :
             /\ rassign' = rassign \o batch_assignments
             /\ rqueries' = rqueries + Len(batch.sources)
             /\ rlast' = [kind |-> kind, asked |-> Len(batch.sources),
                          answered |-> Len(batch_assignments)]
    /\ rsent' = rsent + 1
    /\ rcalls' = Tail(rcalls)
    /\ UNCHANGED <<rin, rcomp, rpc, reuclid, rdom, rpen, rout,
                   rnet, slotVars, geoVars>>

\* step E
MergeRefinements ==
    /\ rpc = "calls" /\ rcomp = "refinement"
    /\ rcalls = <<>>
    /\ rout' = merge_refinements(reuclid, rassign, rin.boundary)
    /\ rpc' = "done"
    /\ UNCHANGED <<rin, rcomp, reuclid, rdom, rcalls, rassign, rpen, rqueries,
                   rsent, rlast, rnet, slotVars, geoVars>>

\* POST /compute-route: the Euclidean diagram, then the grid of compute_sync
StartRouteGrid ==
    /\ rpc = "input"
    /\ reuclid' = EuclideanFeatures(rin.sites, rin.boundary)
    /\ rcalls' = LET grid == _generate_grid_in_polygon(rin.boundary)
                 IN  [k \in 1..Len(grid) |->
                         [sources |-> <<grid[k]>>, dest_ids |-> <<>>]]
    /\ rcomp' = "route_grid"
    /\ rpc' = "calls"
    /\ UNCHANGED <<rin, rdom, rassign, rpen, rqueries, rsent, rlast, rout,
                   rnet, slotVars, geoVars>>

\* one round of the loop of compute_sync; an exception leaves the loop and
\* the handler answers HTTP 500
AssignGridPoint ==
    /\ rpc = "calls" /\ rcomp = "route_grid"
    /\ rcalls # <<>>
    /\ \E kind \in {ReplyKind(rin.oracle, rsent + 1)} :
       \E assignment \in {_assign_grid_point_sync(reuclid, rin.roads,
                                Head(rcalls).sources[1], kind)} :
           /\ rlast' = [kind |-> kind, asked |-> 1,
                        answered |-> IF assignment.raised THEN 0 ELSE 1]
           /\ IF assignment.raised
              THEN /\ rpc' = "aborted"
                   /\ UNCHANGED <<rassign, rqueries>>
              ELSE /\ rpc' = rpc
                   /\ rassign' = Append(rassign,
                          [pt |-> assignment.pt,
                           facility_id |-> assignment.facility_id])
                   /\ rqueries' = rqueries + assignment.k_used
    /\ rsent' = rsent + 1
    /\ rcalls' = Tail(rcalls)
    /\ UNCHANGED <<rin, rcomp, reuclid, rdom, rpen, rout, rnet,
                   slotVars, geoVars>>

FinishRouteGrid ==
    /\ rpc = "calls" /\ rcomp = "route_grid"
    /\ rcalls = <<>>
    /\ rout' = RouteFeatures(rassign, rin.boundary)
    /\ rpc' = "done"
    /\ UNCHANGED <<rin, rcomp, reuclid, rdom, rcalls, rassign, rpen, rqueries,
                   rsent, rlast, rnet, slotVars, geoVars>>

\* WeightedVoronoiEngine.compute with the request's config, step 1:
\* compute_voronoi_with_dcel, which publishes the Euclidean DCEL, and the
\* facilities that have a cell in it
StartWeighted ==
    /\ rpc = "input"
    /\ \E config \in WeightedConfigs : rin' = [rin EXCEPT !.config = config]
    /\ reuclid' = EuclideanFeatures(rin.sites, rin.boundary)
    /\ \E ids \in {FaceIds(reuclid')} :
          rcalls' = LET filtered == SelectSeq([i \in 1..Len(rin.sites) |-> i],
                                             LAMBDA i : i \in ids)
                    IN  [k \in 1..Len(filtered) |->
                            [sources |-> <<rin.sites[filtered[k]]>>,
                             dest_ids |-> <<filtered[k]>>]]
    /\ rpen' = [i \in 1..Len(rin.sites) |-> [num |-> 0, den |-> 1]]
    /\ heap' = Append(heap, build_from_voronoi(reuclid'))
    /\ set_current_dcel(Len(heap'))
    /\ lastSet' = [kind |-> "compute", dcel |-> Len(heap')]
    /\ rcomp' = "weighted"
    /\ rpc' = "calls"
    /\ UNCHANGED <<rdom, rassign, rqueries, rsent, rlast, rout,
                   rnet, geo, bags, task, resp, engine, geoVars>>

\* step 2: one round of the loop of _compute_road_penalties
PenaltyQuery ==
    /\ rpc = "calls" /\ rcomp = "weighted"
    /\ rcalls # <<>>
    /\ \E fid \in {Head(rcalls).dest_ids[1]} :
       \E kind \in {ReplyKind(rin.oracle, rsent + 1)} :
       \E r \in {RoadPenalty(rin.sites, FaceIds(reuclid), rin.roads,
                             rin.config, fid, kind)} :
           /\ rpen' = [rpen EXCEPT ![fid] = r.penalty]
           /\ rqueries' = rqueries + (IF r.counted THEN 1 ELSE 0)
           /\ rsent' = rsent + (IF r.asked THEN 1 ELSE 0)
           /\ rlast' = IF r.asked
                       THEN [kind |-> kind, asked |-> 1, answered |-> 1]
                       ELSE rlast
    /\ rcalls' = Tail(rcalls)
    /\ UNCHANGED <<rin, rcomp, rpc, reuclid, rdom, rassign, rout,
                   rnet, slotVars, geoVars>>

\* steps 3 and 4: the weighted cells under the penalties found
FinishWeighted ==
    /\ rpc = "calls" /\ rcomp = "weighted"
    /\ rcalls = <<>>
    /\ rout' = WeightedFeatures(rin.sites, rpen, rin.boundary)
    /\ rpc' = "done"
    /\ UNCHANGED <<rin, rcomp, reuclid, rdom, rcalls, rassign, rpen, rqueries,
                   rsent, rlast, rnet, slotVars, geoVars>>

NextRoad ==
    \/ StartRefinement
    \/ PickCenter
    \/ DefineRegions
    \/ TableQuery
    \/ MergeRefinements
    \/ StartRouteGrid
    \/ AssignGridPoint
    \/ FinishRouteGrid
    \/ StartWeighted
    \/ PenaltyQuery
    \/ FinishWeighted

SpecRoad == InitRoad /\ [][NextRoad]_vars

\* ----------------------------------------------------------------------
\* Claims on the road-distance computations (specification SpecRoad)

CountOf(features, fid) ==
    Cardinality({k \in 1..Len(features) : features[k].facility_id = fid})

\* C7 as stated: in the output of dominating refinement every input
\* facility has exactly one cell -- no facility id is missing and none
\* appears twice
C7_EveryFacilityHasOneCell ==
    (rcomp = "refinement" /\ rpc = "done") =>
        \A fid \in 1..Len(rin.sites) : CountOf(rout, fid) = 1

\* C7, for the facilities that have a cell in the Euclidean diagram: each
\* has exactly one cell in the output of dominating refinement, road_refined
\* or euclidean_fallback, and the output holds no other cell
C7_EveryEuclideanCellHasOneCell ==
    (rcomp = "refinement" /\ rpc = "done") =>
        /\ \A fid \in FaceIds(reuclid) : CountOf(rout, fid) = 1
        /\ FaceIds(rout) = FaceIds(reuclid)
        /\ \A k \in 1..Len(rout) :
              rout[k].cell_type \in {"road_refined", "euclidean_fallback"}

\* a refinement whose output mixes refined cells and Euclidean fallbacks
C7_Witness ==
    /\ rcomp = "refinement" /\ rpc = "done"
    /\ \E k \in 1..Len(rout) : rout[k].cell_type = "road_refined"
    /\ \E k \in 1..Len(rout) : rout[k].cell_type = "euclidean_fallback"

\* C8: with the routing oracle unreachable for the whole run, dominating
\* refinement returns exactly the Euclidean input cells, every one marked
\* euclidean_fallback and none road_refined
C8_OracleDownGivesEuclidean ==
    (rcomp = "refinement" /\ rpc = "done" /\ rin.oracle.mode = "down") =>
        rout = [k \in 1..Len(reuclid) |->
                   [reuclid[k] EXCEPT !.cell_type = "euclidean_fallback"]]

\* C9: a failed oracle request (timeout, transport error, error code,
\* malformed or short reply) never aborts the weighted, route-grid or
\* refinement computation, and every source of the request still gets its
\* answer, by the Euclidean fallback
C9_OracleFailuresAreRecovered ==
    rlast.kind \in FaultKinds =>
        (rpc # "aborted" /\ rlast.answered = rlast.asked)

\* C18: the total_route_queries value reported in the dominating-refinement
\* result equals the number of routing (table) queries actually issued to
\* the oracle during the run
C18_ReportedQueriesAreRequests ==
    (rcomp = "refinement" /\ rpc = "done") => rqueries = rsent

\* the grid points of a sequence of assignments
PointsOf(assignments) ==
    [i \in 1..Len(assignments) |-> assignments[i].pt]

\* C22: in batched reassignment the grid points go out in consecutive
\* batches of at most batch_size sources, and for every oracle response --
\* reordered, short, over-long or failing ones included -- each grid point
\* of the batch receives exactly one assignment, carrying that point's own
\* coordinates, in submission order
C22_OneAssignmentPerGridPoint ==
    [][(rcomp = "refinement" /\ rpc = "calls" /\ rsent' = rsent + 1) =>
          /\ \A k \in 1..Len(rcalls) : Len(rcalls[k].sources) <= BatchSize
          /\ PointsOf(rassign') = PointsOf(rassign) \o Head(rcalls).sources
      ]_vars

\* the centroids of the destinations of a batch
DestinationsOf(batch) ==
    [j \in 1..Len(batch.dest_ids) |->
        get_facility_centroid(reuclid, batch.dest_ids[j])]

\* position of a facility among the destinations of a batch
DestIndex(batch, fid) ==
    CHOOSE j \in 1..Len(batch.dest_ids) : batch.dest_ids[j] = fid

\* C23: in batched reassignment each grid point is assigned to the
\* neighbourhood facility of minimum road distance, and whenever the
\* routing row of a grid point contains a null entry the point falls back
\* to its Euclidean-nearest facility of the neighbourhood
C23_NullEntryFallsBackToEuclidean ==
    [][(/\ rcomp = "refinement" /\ rpc = "calls" /\ rsent' = rsent + 1
        /\ ReplyKind(rin.oracle, rsent + 1) = "ok") =>
          LET batch == Head(rcalls)
              destinations == DestinationsOf(batch)
              rows == Matrix(rin.roads, batch.sources, destinations)
          IN  /\ Len(rassign') = Len(rassign) + Len(batch.sources)
              /\ \A i \in 1..Len(batch.sources) :
                    LET fid == rassign'[Len(rassign) + i].facility_id
                    IN  IF \E j \in 1..Len(rows[i]) : rows[i][j].null
                        THEN fid = find_nearest_euclidean(batch.sources[i],
                                       destinations, batch.dest_ids)
                        ELSE \A j \in 1..Len(rows[i]) :
                                ~EntryLess(rows[i][j],
                                           rows[i][DestIndex(batch, fid)])
      ]_vars

\* the sets of siblings of generator f that are its k Euclidean-nearest:
\* as many as k allows, none of them farther than a sibling left out
NearestSiblings(f, k) ==
    LET siblings == FaceIds(reuclid) \ {f}
        size == IF k < Cardinality(siblings) THEN k
                ELSE Cardinality(siblings)
    IN  {chosen \in SUBSET siblings :
            /\ Cardinality(chosen) = size
            /\ \A j \in chosen, l \in siblings \ chosen :
                  Dist2(rin.sites[f], rin.sites[j])
                    <= Dist2(rin.sites[f], rin.sites[l])}

\* the routing query of a penalty round failed
QueryFailed(kind) == kind \in HttpErrors \cup {"code", "not_json", "no_rows"}

\* the siblings of f, among chosen, that the reply reports a road distance
\* for: a short reply lacks the entry of the farthest one
ConnectedSiblings(f, chosen, kind) ==
    {j \in chosen :
        /\ ~TableEntry(rin.roads, rin.sites[f], Place(rin.sites[j])).null
        /\ kind = "short" =>
              \E l \in chosen \ {j} :
                 \/ Dist2(rin.sites[f], rin.sites[j])
                      < Dist2(rin.sites[f], rin.sites[l])
                 \/ /\ Dist2(rin.sites[f], rin.sites[j])
                         = Dist2(rin.sites[f], rin.sites[l])
                    /\ j < l}

\* road distance - Euclidean distance from f to its sibling j
Excess(f, j) == TableEntry(rin.roads, rin.sites[f], Place(rin.sites[j])).det

SlotCells ==
    {<<face.facility_id, face.geometry>> :
        face \in {FaceFeatures(heap[get_current_dcel])[idx] :
                     idx \in 1..Len(heap[get_current_dcel].faces)}}

ReturnedCells == {<<rout[k].facility_id, rout[k].geometry>> : k \in 1..Len(rout)}

\* C27: after a compute in weighted or dominating-refinement mode the
\* current-diagram slot holds a diagram whose cells are the ones that
\* compute returned, so that DCEL queries issued afterwards answer from
\* the tessellation the caller received
C27_SlotHoldsReturnedCells ==
    (rcomp \in {"weighted", "refinement"} /\ rpc = "done") =>
        /\ get_current_dcel # NoneId
        /\ SlotCells = ReturnedCells

\* ----------------------------------------------------------------------
\* compute_dominating_set over any adjacency graph (specification
\* SpecGreedy)

\* the pairs of nodes an edge may join
NodePairs == {pair \in (1..MaxNodes) \X (1..MaxNodes) : pair[1] < pair[2]}

\* the adjacency dictionary of the graph with the given edges: every node
\* is a key, its neighbours are listed both ways
GraphOf(edges) ==
    [f \in 1..MaxNodes |->
        {g \in 1..MaxNodes : <<f, g>> \in edges \/ <<g, f>> \in edges}]

Graphs == {GraphOf(edges) : edges \in SUBSET NodePairs}

GreedyInit ==
    /\ rin = [sites |-> <<>>, boundary |-> {}, roads |-> "plain",
              oracle |-> [mode |-> "up", at |-> 0, kind |-> "ok"],
              config |-> DefaultConfig]
    /\ rcomp = "dominating_set"
    /\ rpc = "dominating"
    /\ reuclid = <<>>
    /\ \E adjacency \in Graphs :
          rdom = [adjacency |-> adjacency,
                  uncovered |-> AllNodes(adjacency),
                  dominating_set |-> {},
                  picks |-> <<>>]
    /\ rcalls = <<>>
    /\ rassign = <<>>
    /\ rpen = <<>>
    /\ rqueries = 0
    /\ rsent = 0
    /\ rlast = NoCall
    /\ rout = <<>>
    /\ rnet = NoNet

InitGreedy == SlotInit /\ GeoOff /\ GreedyInit

\* the loop has ended: return dominating_set
ReturnDominatingSet ==
    /\ rpc = "dominating" /\ rcomp = "dominating_set"
    /\ rdom.uncovered = {}
    /\ rpc' = "done"
    /\ UNCHANGED <<rin, rcomp, reuclid, rdom, rcalls, rassign, rpen, rqueries,
                   rsent, rlast, rout, rnet, slotVars, geoVars>>

NextGreedy ==
    \/ PickCenter
    \/ ReturnDominatingSet

\* the loop is the only thread of the call: it keeps running
SpecGreedy == InitGreedy /\ [][NextGreedy]_vars /\ WF_vars(NextGreedy)

\* ----------------------------------------------------------------------
\* Claims on the greedy dominating set (specification SpecGreedy)

\* every node is in the set or adjacent to a node in it
Dominating(adjacency, set) ==
    \A node \in AllNodes(adjacency) :
        \/ node \in set
        \/ \E member \in set :
              member \in DOMAIN adjacency /\ node \in adjacency[member]

\* C19: for every finite adjacency graph, compute_dominating_set
\* terminates, adding one node per iteration in at most |V| iterations,
\* and the returned set is dominating: every node of the graph is in the
\* set or adjacent to a node in it
C19_TerminatesWithDominatingSet ==
    /\ [](/\ Len(rdom.picks) <= Cardinality(AllNodes(rdom.adjacency))
          /\ Cardinality(rdom.dominating_set) = Len(rdom.picks)
          /\ rpc = "done" => Dominating(rdom.adjacency, rdom.dominating_set))
    /\ <>(rpc = "done")

\* a run of several iterations has returned its set
C19_Witness ==
    /\ rcomp = "dominating_set" /\ rpc = "done"
    /\ Len(rdom.picks) >= 2
    /\ Dominating(rdom.adjacency, rdom.dominating_set)

\* the nodes still uncovered, and those in the set, before pick number k
PickedBefore(k) == {rdom.picks[j] : j \in 1..(k - 1)}

UncoveredBefore(k) ==
    AllNodes(rdom.adjacency)
      \ UNION {{node} \cup NeighborsOf(rdom.adjacency, node) :
                  node \in PickedBefore(k)}

\* C20 as stated: at every iteration of the greedy loop, the node added to
\* the set is itself still uncovered at that moment and covers the maximum
\* number of uncovered nodes of {node} and its neighbours among the
\* uncovered nodes
C20_PicksBestUncoveredNode ==
    rcomp = "dominating_set" =>
        \A k \in 1..Len(rdom.picks) :
            /\ rdom.picks[k] \in UncoveredBefore(k)
            /\ \A other \in UncoveredBefore(k) :
                  Coverage(rdom.adjacency, other, UncoveredBefore(k))
                    <= Coverage(rdom.adjacency, rdom.picks[k],
                                UncoveredBefore(k))

\* C20, over the nodes the loop looks at: at every iteration the node added
\* is not yet in the set, covers at least one uncovered node and covers the
\* maximum number of uncovered nodes of {node} and its neighbours among all
\* nodes not yet in the set, covered or not
C20_PicksBestUnpickedNode ==
    rcomp = "dominating_set" =>
        \A k \in 1..Len(rdom.picks) :
            /\ rdom.picks[k] \notin PickedBefore(k)
            /\ Coverage(rdom.adjacency, rdom.picks[k], UncoveredBefore(k)) > 0
            /\ \A other \in AllNodes(rdom.adjacency) \ PickedBefore(k) :
                  Coverage(rdom.adjacency, other, UncoveredBefore(k))
                    <= Coverage(rdom.adjacency, rdom.picks[k],
                                UncoveredBefore(k))

\* the loop has added a node that an earlier pick had already covered
C20_Witness ==
    /\ rcomp = "dominating_set"
    /\ \E k \in 1..Len(rdom.picks) : rdom.picks[k] \notin UncoveredBefore(k)

\* the least id among the given nodes
SmallestId(nodes) == CHOOSE node \in nodes : \A other \in nodes : node <= other

\* the set the loop returns when nodes are visited in ascending id order,
\* so that a tie in coverage goes to the smallest id
RECURSIVE AscendingIdRun(_, _, _)
AscendingIdRun(adjacency, dominating_set, uncovered) ==
    IF uncovered = {} THEN dominating_set
    ELSE LET best_node ==
                 SmallestId(BestNodes(adjacency, dominating_set, uncovered))
         IN  AscendingIdRun(adjacency, dominating_set \cup {best_node},
                 uncovered \ ({best_node}
                                \cup NeighborsOf(adjacency, best_node)))

\* C21: the greedy dominating set is deterministic -- every run on one
\* adjacency graph returns the same set, the one obtained by visiting the
\* nodes in ascending id order with ties in coverage going to the smallest
\* id, whatever order the node collection is iterated in
C21_SameSetWhateverTheOrder ==
    (rcomp = "dominating_set" /\ rpc = "done") =>
        rdom.dominating_set =
            AscendingIdRun(rdom.adjacency, {}, AllNodes(rdom.adjacency))

\* ----------------------------------------------------------------------
\* The DCEL over a feature collection and its k-NN queries (dcel.py)

\* the expansion of adaptive_k reported without the cap at the face count
adaptive_k_uncapped(faces, pt, k, threshold) ==
    LET distances == FacesByDistance(faces, pt)
        first == get_facility_centroid(faces, distances[1])
        kth   == get_facility_centroid(faces, distances[k])
    IN  IF faces = <<>> THEN [k_used |-> k, faces |-> <<>>]
        ELSE IF Len(distances) < k
        THEN [k_used |-> Len(distances), faces |-> distances]
        ELSE IF /\ PlaceDist2(pt, first) > 0
                /\ PlaceDist2(pt, kth) * first.n * first.n
                     > threshold * threshold
                         * PlaceDist2(pt, first) * kth.n * kth.n
        THEN [k_used |-> 2 * k, faces |-> Prefix(distances, 2 * k)]
        ELSE [k_used |-> k, faces |-> Prefix(distances, k)]

\* DCEL.adaptive_k(lat, lng, base_k, distortion_threshold): k is base_k;
\* kth_dist / first_dist > distortion_threshold is compared on the squares
adaptive_k(faces, pt, k, threshold) ==
    LET distances == FacesByDistance(faces, pt)
        first == get_facility_centroid(faces, distances[1])
        kth   == get_facility_centroid(faces, distances[k])
        expanded_k == Min(2 * k, Len(distances))
    IN  IF faces = <<>> THEN [k_used |-> k, faces |-> <<>>]
        ELSE IF Len(distances) < k
        THEN [k_used |-> Len(distances), faces |-> distances]
        ELSE IF /\ PlaceDist2(pt, first) > 0
                /\ PlaceDist2(pt, kth) * first.n * first.n
                     > threshold * threshold
                         * PlaceDist2(pt, first) * kth.n * kth.n
        THEN [k_used |-> expanded_k, faces |-> Prefix(distances, expanded_k)]
        ELSE [k_used |-> k, faces |-> Prefix(distances, k)]

\* the facility ids of a request: in the order of the facility list, or
\* against it
IdOrders ==
    {[k \in 1..MinFacilities |-> k],
     [k \in 1..MinFacilities |-> MinFacilities + 1 - k]}

Named(features, ids) ==
    [k \in 1..Len(features) |->
        [features[k] EXCEPT !.facility_id = ids[features[k].facility_id]]]

WithoutGeometry(features, m) ==
    [k \in 1..Len(features) |->
        IF k = m THEN [features[k] EXCEPT !.geometry = {}] ELSE features[k]]

\* the collections a DCEL is built from: the diagram under either naming
\* of its facilities, or with one feature that carries no geometry
FeatureCollections(features) ==
    {Named(features, ids) : ids \in IdOrders}
      \cup {WithoutGeometry(features, m) : m \in 1..Len(features)}

\* where k-NN queries are asked: where facilities may sit
QueryPoints == SitePoints \cup {MidSites[1]}

\* distortion_threshold: none, or the default of the route engine
distortion_threshold == 3
Thresholds == {0, distortion_threshold}

\* dcel = DCEL(); dcel.build_from_voronoi(geojson)
BuildDcel ==
    /\ gpc = "cells"
    /\ gmode = "euclidean"
    /\ \E collection \in FeatureCollections(cells) :
          gdcel' = build_from_voronoi(collection)
    /\ gpc' = "dcel"
    /\ UNCHANGED <<gin, gmode, cells, popres, gerror, gprev, gquery,
                   slotVars, roadVars>>

\* dcel.k_nearest_neighbors(lat, lng, k)
NearestQuery ==
    /\ gpc = "dcel"
    /\ \E pt \in QueryPoints, k \in 1..MaxFac :
          gquery' = [op |-> "k_nearest", pt |-> pt, k |-> k, threshold |-> 0,
                     k_used |-> k,
                     faces |-> k_nearest_neighbors(FaceFeatures(gdcel),
                                                   pt, k)]
    /\ gpc' = "answered"
    /\ UNCHANGED <<gin, gmode, cells, popres, gerror, gprev, gdcel,
                   slotVars, roadVars>>

\* dcel.adaptive_k(lat, lng, base_k, distortion_threshold)
AdaptiveQuery ==
    /\ gpc = "dcel"
    /\ \E pt \in QueryPoints, k \in 1..MaxFac, threshold \in Thresholds :
       \E answer \in {adaptive_k(FaceFeatures(gdcel), pt, k, threshold)} :
          gquery' = [op |-> "adaptive_k", pt |-> pt, k |-> k,
                     threshold |-> threshold,
                     k_used |-> answer.k_used, faces |-> answer.faces]
    /\ gpc' = "answered"
    /\ UNCHANGED <<gin, gmode, cells, popres, gerror, gprev, gdcel,
                   slotVars, roadVars>>

NextDcel ==
    \/ ComputeEuclidean
    \/ BuildDcel
    \/ NearestQuery
    \/ AdaptiveQuery

SpecDcel == InitGeo /\ [][NextDcel]_vars

\* ----------------------------------------------------------------------
\* Claims on the DCEL (specification SpecDcel)

\* the faces of the DCEL that have a polygon
Held == SelectSeq(FaceFeatures(gdcel), HasPolygon)

\* the centroid of the face of facility fid is nearer to the query point
\* than that of facility other
FaceNearer(fid, other) ==
    PlaceNearer(gquery.pt, get_facility_centroid(Held, fid),
                get_facility_centroid(Held, other))

\* C15: k_nearest(lat, lng, k) returns min(k, number of faces) faces
\* ordered by ascending distance from the query point to the face
\* centroid, and faces at equal distance are ordered by ascending
\* facility id
C15_NearestFacesInOrder ==
    (gpc = "answered" /\ gquery.op = "k_nearest") =>
        /\ Len(gquery.faces) = Min(gquery.k, Len(gdcel.faces))
        /\ \A a \in 1..Len(gquery.faces), b \in 1..Len(gquery.faces) :
              a < b =>
                 \/ FaceNearer(gquery.faces[a], gquery.faces[b])
                 \/ /\ ~FaceNearer(gquery.faces[b], gquery.faces[a])
                    /\ gquery.faces[a] < gquery.faces[b]

\* the number of faces of the DCEL that have a polygon
HeldCount == Len(Held)

\* how many faces have their centroid nearer to the query point than the
\* face of facility fid
RankOf(fid) ==
    Cardinality({other \in FaceIds(Held) : FaceNearer(other, fid)})

\* the face whose centroid is the k-th nearest to the query point
KthNearest(k) ==
    CHOOSE fid \in FaceIds(Held) :
        /\ RankOf(fid) < k
        /\ Cardinality({other \in FaceIds(Held) :
                           ~FaceNearer(fid, other)}) >= k

\* d_k / d_1 > tau, d_1 and d_k being the distances to the nearest and the
\* k-th nearest face centroid, compared on the squares
Distorted(k, threshold) ==
    LET first == get_facility_centroid(Held, KthNearest(1))
        kth   == get_facility_centroid(Held, KthNearest(k))
    IN  PlaceDist2(gquery.pt, kth) * first.n * first.n
          > threshold * threshold
              * PlaceDist2(gquery.pt, first) * kth.n * kth.n

AtCentroid ==
    PlaceDist2(gquery.pt, get_facility_centroid(Held, KthNearest(1))) = 0

\* C16 as stated: adaptive_k(point, base_k, tau) returns k' = 2*base_k
\* exactly when d_k/d_1 > tau and k' = base_k otherwise, for every DCEL and
\* every query point
C16_AdaptiveKAsStated ==
    (gpc = "answered" /\ gquery.op = "adaptive_k") =>
        gquery.k_used =
            IF /\ HeldCount >= gquery.k
               /\ Distorted(gquery.k, gquery.threshold)
            THEN 2 * gquery.k
            ELSE gquery.k

\* C16, with the face count taken into account: over a DCEL of at least
\* one face, n of its faces having a polygon, adaptive_k returns k' = n when n < base_k, else
\* k' = min(2*base_k, n) exactly when d_1 > 0 and d_k/d_1 > tau and
\* k' = base_k otherwise; the list holds k' faces, nearest first
C16_AdaptiveKWithinFaces ==
    (gpc = "answered" /\ gquery.op = "adaptive_k"
        /\ Len(gdcel.faces) > 0) =>
        /\ gquery.k_used =
              IF HeldCount < gquery.k THEN HeldCount
              ELSE IF ~AtCentroid /\ Distorted(gquery.k, gquery.threshold)
              THEN Min(2 * gquery.k, HeldCount)
              ELSE gquery.k
        /\ Len(gquery.faces) = gquery.k_used
        /\ \A a \in 1..Len(gquery.faces), b \in 1..Len(gquery.faces) :
              a < b => ~FaceNearer(gquery.faces[b], gquery.faces[a])
        /\ \A fid \in FaceIds(Held) :
              (\E a \in 1..Len(gquery.faces) : gquery.faces[a] = fid)
                 \/ \A a \in 1..Len(gquery.faces) :
                       ~FaceNearer(fid, gquery.faces[a])

\* a distorted query whose expansion is cut at the face count, below
\* 2*base_k
C16_Witness ==
    /\ gpc = "answered" /\ gquery.op = "adaptive_k"
    /\ HeldCount >= gquery.k
    /\ ~AtCentroid
    /\ Distorted(gquery.k, gquery.threshold)
    /\ gquery.k_used = HeldCount
    /\ gquery.k < gquery.k_used /\ gquery.k_used < 2 * gquery.k

\* C17: after DCEL construction from any feature collection, every face
\* has a non-null cached polygon of strictly positive area; features
\* without valid geometry are discarded and produce no face and no
\* identity-index entry
C17_EveryFaceHasPolygon ==
    gpc \in {"dcel", "answered"} =>
        /\ \A idx \in 1..Len(gdcel.faces) :
              /\ gdcel.faces[idx].polygon # {}
              /\ Area(gdcel.faces[idx].polygon) > 0
        /\ \A entry \in gdcel._face_lookup :
              gdcel.faces[entry[2]].polygon # {}

\* ----------------------------------------------------------------------
\* Road-graph Voronoi (road_network_service.py): the nodes of the largest
\* connected component of a road graph, partitioned among the nodes the
\* facilities snap to

NetPairs == {pair \in (1..NetNodes) \X (1..NetNodes) : pair[1] < pair[2]}

EdgeLengths == 1..MaxLength

\* a loaded road graph: the nodes 1..NetNodes and the 'length' of every
\* edge; adjacency is listed by ascending node id
RoadGraphs == UNION {[edges -> EdgeLengths] : edges \in SUBSET NetPairs}

Neighbours(G, v) ==
    {u \in 1..NetNodes : <<u, v>> \in DOMAIN G \/ <<v, u>> \in DOMAIN G}

EdgeLength(G, u, v) == IF u < v THEN G[<<u, v>>] ELSE G[<<v, u>>]

RECURSIVE Reached(_, _)
Reached(G, found) ==
    LET more == found \cup UNION {Neighbours(G, v) : v \in found}
    IN  IF more = found THEN found ELSE Reached(G, more)

\* nx.connected_components(G): in the order of the nodes
connected_components(G) == {Reached(G, {v}) : v \in 1..NetNodes}

\* max(..., key=len): the first of the largest components
LargestOf(components) ==
    CHOOSE cc \in components :
        \A other \in components :
            \/ Cardinality(cc) > Cardinality(other)
            \/ /\ Cardinality(cc) = Cardinality(other)
               /\ SmallestId(cc) <= SmallestId(other)

largest_cc(G) == LargestOf(connected_components(G))

\* G_connected = G.subgraph(largest_cc)
Subgraph(G, nodes) ==
    [pair \in {edge \in DOMAIN G : edge[1] \in nodes} |-> G[pair]]

RECURSIVE AscendingIds(_)
AscendingIds(nodes) ==
    IF nodes = {} THEN <<>>
    ELSE <<SmallestId(nodes)>> \o AscendingIds(nodes \ {SmallestId(nodes)})

NodesOf(node_list) == {node_list[k] : k \in 1..Len(node_list)}

\* list(set(facility_nodes)): the distinct nodes, in whatever order the
\* set's hash table yields them
UniqueNodeOrders(facility_nodes) ==
    {order \in [1..Cardinality(NodesOf(facility_nodes)) ->
                    NodesOf(facility_nodes)] :
        NodesOf(order) = NodesOf(facility_nodes)}

\* node_to_facility[node]: the first facility snapped to the node
node_to_facility(facility_nodes, node) ==
    CHOOSE k \in 1..Len(facility_nodes) :
        /\ facility_nodes[k] = node
        /\ \A j \in 1..(k - 1) : facility_nodes[j] # node

\* multi-source Dijkstra as nx.voronoi_cells runs it: every source is
\* pushed at distance 0 in list order, the fringe is a heap of
\* (distance, push counter, node), and a node's path is replaced only by
\* a strictly shorter one.  paths[u] keeps the source the path starts at.
DijkstraStart(unique_nodes) ==
    [dist   |-> {},
     seen   |-> [v \in NodesOf(unique_nodes) |-> 0],
     paths  |-> [v \in NodesOf(unique_nodes) |-> v],
     fringe |-> {<<0, k - 1, unique_nodes[k]>> : k \in 1..Len(unique_nodes)},
     c      |-> Len(unique_nodes)]

RECURSIVE Relax(_, _, _, _, _)
Relax(G, s, v, d, todo) ==
    IF todo = <<>> THEN s
    ELSE LET u == Head(todo)
             vu_dist == d + EdgeLength(G, v, u)
         IN  IF u \in s.dist THEN Relax(G, s, v, d, Tail(todo))
             ELSE IF u \notin DOMAIN s.seen \/ vu_dist < s.seen[u]
             THEN Relax(G, [s EXCEPT !.seen = (u :> vu_dist) @@ @,
                                     !.paths = (u :> s.paths[v]) @@ @,
                                     !.fringe = @ \cup {<<vu_dist, s.c, u>>},
                                     !.c = @ + 1],
                        v, d, Tail(todo))
             ELSE Relax(G, s, v, d, Tail(todo))

RECURSIVE DijkstraRun(_, _)
DijkstraRun(G, s) ==
    IF s.fringe = {} THEN s
    ELSE LET top == CHOOSE entry \in s.fringe :
                        \A other \in s.fringe :
                            \/ entry[1] < other[1]
                            \/ entry[1] = other[1] /\ entry[2] <= other[2]
             popped == [s EXCEPT !.fringe = @ \ {top}]
         IN  IF top[3] \in s.dist THEN DijkstraRun(G, popped)
             ELSE DijkstraRun(G,
                      Relax(G, [popped EXCEPT !.dist = @ \cup {top[3]}],
                            top[3], top[1],
                            AscendingIds(Neighbours(G, top[3]))))

\* nearest = {v: p[0] for v, p in paths.items()}
NearestSource(G, unique_nodes) ==
    DijkstraRun(G, DijkstraStart(unique_nodes)).paths

\* nx.voronoi_cells(G_connected, unique_nodes, weight='length')
voronoi_cells(G, unique_nodes) ==
    LET Groups(nearest) ==
            [center \in NodesOf(unique_nodes) |->
                {v \in DOMAIN nearest : nearest[v] = center}]
    IN  Groups(NearestSource(G, unique_nodes))

\* the features: one for every cell of three nodes or more, named after
\* the first facility of its center; its polygon is the hull of the cell's
\* node positions, which the model keeps as the node set
RoadFeatures(facility_nodes, voronoi_dict) ==
    {[facility      |-> node_to_facility(facility_nodes, center_node),
      network_nodes |-> voronoi_dict[center_node]] :
        center_node \in {center \in DOMAIN voronoi_dict :
                            Cardinality(voronoi_dict[center]) >= 3}}

\* a request: the loaded graph and, for every facility in input order,
\* the node ox.nearest_nodes snaps it to
GraphInit ==
    /\ rin = [sites |-> <<>>, boundary |-> {}, roads |-> "plain",
              oracle |-> [mode |-> "up", at |-> 0, kind |-> "ok"],
              config |-> DefaultConfig]
    /\ rcomp = "road_graph"
    /\ rpc = "off"
    /\ reuclid = <<>>
    /\ rdom = NoDom
    /\ rcalls = <<>>
    /\ rassign = <<>>
    /\ rpen = <<>>
    /\ rqueries = 0
    /\ rsent = 0
    /\ rlast = NoCall
    /\ rout = <<>>
    /\ \E G \in RoadGraphs, count \in 1..MaxFac :
         \E cc \in {largest_cc(G)} :
            \E snapped \in [1..count -> cc] :
               rnet = [NoNet EXCEPT !.pc = "input", !.G = G,
                                    !.snapped = snapped]

InitGraph == SlotInit /\ GeoOff /\ GraphInit

\* compute_road_voronoi with fewer than two facilities: ValueError
TooFewForRoadVoronoi ==
    /\ rnet.pc = "input"
    /\ Len(rnet.snapped) < 2
    /\ rnet' = [rnet EXCEPT !.pc = "error"]
    /\ UNCHANGED <<rin, rcomp, rpc, reuclid, rdom, rcalls, rassign, rpen,
                   rqueries, rsent, rlast, rout, slotVars, geoVars>>

\* compute_road_voronoi
compute_road_voronoi ==
    /\ rnet.pc = "input"
    /\ Len(rnet.snapped) >= 2
    /\ \E cc \in {largest_cc(rnet.G)},
          unique_nodes \in UniqueNodeOrders(rnet.snapped) :
         \E voronoi_dict \in
               {voronoi_cells(Subgraph(rnet.G, cc), unique_nodes)} :
            rnet' = [rnet EXCEPT
                       !.pc = "done",
                       !.nodes = cc,
                       !.facility_nodes = rnet.snapped,
                       !.unique_nodes = unique_nodes,
                       !.voronoi_dict = voronoi_dict,
                       !.features =
                           RoadFeatures(rnet.snapped, voronoi_dict)]
    /\ UNCHANGED <<rin, rcomp, rpc, reuclid, rdom, rcalls, rassign, rpen,
                   rqueries, rsent, rlast, rout, slotVars, geoVars>>

NextGraph ==
    \/ TooFewForRoadVoronoi
    \/ compute_road_voronoi

SpecGraph == InitGraph /\ [][NextGraph]_vars

\* ----------------------------------------------------------------------
\* Claims on the road-graph Voronoi (specification SpecGraph)

\* longer than every path
NoPath == NetNodes * MaxLength

\* the length of the shortest path between two nodes that uses at most
\* the given number of edges; NoPath when there is none
RECURSIVE PathLength(_, _, _, _)
PathLength(G, from, to, hops) ==
    IF from = to THEN 0
    ELSE IF hops = 0 THEN NoPath
    ELSE LET via == {PathLength(G, from, u, hops - 1) + EdgeLength(G, u, to) :
                        u \in Neighbours(G, to)}
         IN  IF via = {} THEN NoPath
             ELSE Min(NoPath, CHOOSE d \in via : \A other \in via : d <= other)

ShortestPath(G, from, to) == PathLength(G, from, to, NetNodes - 1)

CellOf(v) ==
    CHOOSE center \in DOMAIN rnet.voronoi_dict : v \in rnet.voronoi_dict[center]

\* every node of the connected graph is in the cell of a source at
\* minimum shortest-path distance
MinimumDistanceCells ==
    rnet.pc = "done" =>
        \A v \in rnet.nodes :
            /\ \E center \in DOMAIN rnet.voronoi_dict :
                  v \in rnet.voronoi_dict[center]
            /\ \A other \in NodesOf(rnet.unique_nodes) :
                  ShortestPath(rnet.G, CellOf(v), v)
                      <= ShortestPath(rnet.G, other, v)

\* C26: in road-graph Voronoi every node of the connected road graph is
\* assigned to a snapped source at minimum shortest-path distance, and a
\* node equidistant from several sources is assigned to the source whose
\* generator comes first in the input order
C26_NearestSourceFirstGeneratorOnTie ==
    /\ MinimumDistanceCells
    /\ rnet.pc = "done" =>
          \A v \in rnet.nodes :
              \A other \in NodesOf(rnet.unique_nodes) :
                  ShortestPath(rnet.G, CellOf(v), v)
                        = ShortestPath(rnet.G, other, v)
                     => node_to_facility(rnet.facility_nodes, CellOf(v))
                          <= node_to_facility(rnet.facility_nodes, other)

\* ----------------------------------------------------------------------
\* The route engine singleton (route_voronoi_service.py) next to the
\* writes of the current-diagram slot

\* RouteVoronoiEngine(): self.dcel = dcel or get_current_dcel(), read once
RouteVoronoiEngine == [NoEngine EXCEPT !.made = TRUE, !.dcel = get_current_dcel]

\* get_route_voronoi_engine(): the global engine, created on first use
get_route_voronoi_engine ==
    /\ \E returned \in {IF engine.made THEN engine ELSE RouteVoronoiEngine} :
          engine' = [returned EXCEPT !.op = "get",
                                     !.used = returned.dcel,
                                     !.current = get_current_dcel]
    /\ UNCHANGED <<slot, heap, geo, bags, task, resp, lastSet,
                   geoVars, roadVars>>

\* reset_route_voronoi_engine(): the global engine is dropped
reset_route_voronoi_engine ==
    /\ engine' = [NoEngine EXCEPT !.op = "reset"]
    /\ UNCHANGED <<slot, heap, geo, bags, task, resp, lastSet,
                   geoVars, roadVars>>

\* computes that replace the slot, direct writes and clears of the slot,
\* and the two accessor calls, in any order
NextEngine ==
    \/ \E mode \in Modes, n \in 1..MaxFac : Request(mode, n, FALSE)
    \/ ComputeVoronoiFails
    \/ ComputeVoronoiOk
    \/ BuildFace
    \/ BuildIndex
    \/ Publish
    \/ RoutingQuery
    \/ FinishRouting
    \/ Return
    \/ Clear
    \/ \E d \in 1..MaxDiagrams : SetPrevious(d)
    \/ get_route_voronoi_engine
    \/ reset_route_voronoi_engine

SpecEngine == Init /\ [][NextEngine]_vars

\* ----------------------------------------------------------------------
\* Claims on the route engine singleton (specification SpecEngine)

\* C28: at any time the diagram used by the engine returned from
\* get_route_voronoi_engine() is the diagram held in the current-diagram
\* slot at that moment, for every interleaving of slot replacements, slot
\* clears, get_route_voronoi_engine() and reset_route_voronoi_engine()
C28_EngineUsesCurrentDiagram ==
    engine.op = "get" => engine.used = engine.current

\* ----------------------------------------------------------------------
\* The identity index of a DCEL built for a request (dcel.py); the ids are
\* the client's, facility_ids = [f.id or str(i) ...], so that two
\* facilities may carry one id

RequestIdLists ==
    IdOrders \cup {[k \in 1..MinFacilities |->
                      IF k = MinFacilities THEN 1 ELSE k]}

\* dcel = DCEL(); dcel.build_from_voronoi(geojson) under the ids of the
\* request
BuildRequestDcel ==
    /\ gpc = "cells"
    /\ gmode = "euclidean"
    /\ \E ids \in RequestIdLists :
          gdcel' = build_from_voronoi(Named(cells, ids))
    /\ gpc' = "dcel"
    /\ UNCHANGED <<gin, gmode, cells, popres, gerror, gprev, gquery,
                   slotVars, roadVars>>

NextIndex ==
    \/ ComputeEuclidean
    \/ BuildRequestDcel

SpecIndex == InitGeo /\ [][NextIndex]_vars

\* self._face_lookup.get(facility_id): the index of the face, NoneId when
\* the id has no entry
FaceLookup(d, facility_id) ==
    IF \E entry \in d._face_lookup : entry[1] = facility_id
    THEN (CHOOSE entry \in d._face_lookup : entry[1] = facility_id)[2]
    ELSE NoneId

\* ----------------------------------------------------------------------
\* Claims on the identity index (specification SpecIndex)

\* C29: in every DCEL built from a feature collection the identity index
\* is consistent with the face list: for every face f in faces,
\* get_face_by_facility_id(f.facility_id) returns f itself, also when
\* several features carry the same facility id
C29_LookupReturnsTheFace ==
    gpc = "dcel" =>
        \A idx \in 1..Len(gdcel.faces) :
            FaceLookup(gdcel, gdcel.faces[idx].facility_id) = idx

====
